---- MODULE Spec2Model ----
(***************************************************************************)
(* Model of the crawl orchestration core of the Facebook pages scraper:    *)
(*   - the URL classifier / normalisers / fan-out planner (functions.ts),  *)
(*   - the keyed state store and the page handler's appends (main file).   *)
(*                                                                         *)
(* A JavaScript string is modelled as a sequence of tokens; every token is *)
(* a piece of text that the patterns of the code never split ("/", "pg",   *)
(* "posts", "a.", a digit, a name, ...).  A URL object (WHATWG URL) is the *)
(* record [protocol, hostname, pathname, search], search being the ordered *)
(* list of <<key, value>> pairs of its URLSearchParams.                    *)
(***************************************************************************)
EXTENDS Integers, Sequences, FiniteSets, TLC

VARIABLES
    \* a call of one of the URL functions: argument, function, 2nd argument, outcome
    urlIn, urlOp, urlArg, urlOut,
    \* the state store: handle -> stored snapshot, and the appends not yet run
    map, queue,
    \* the PostRecord objects (shared by reference between snapshots and tasks)
    heap,
    \* the handlePageFunction executions: position, request, pending callback,
    \* the callback's returned snapshot, the task's postContent, comments added
    pc, task, fn, res, postRef, added,
    \* minMaxDates: the two option values, the clock reads of the two
    \* parseTimeUnit calls, the caller, the outcome, the last compare(time)
    dateA, dateB, dateNow, dateOp, window, cmp,
    \* dateRangeItemCounter: its window, its counters, the last call and its result
    sampleWin, sample, sampleLast,
    \* the start-up phase: the input, the position in the start URL loop, its
    \* local url, the sub-pages still to initialise, the request queue, the
    \* appends issued to the state store, the start URLs counted
    startIn, startPc, startUrl, startTodo, requestQueue, startAppends, startUrlCount,
    \* scrollUntil: its options, its position, the page (closed or not), what
    \* the caller's doScroll returns, the two histories, lastCount, count, the
    \* samples and verdicts of the current step
    scOpts, scPc, scClosed, scDoScroll, scrolls, heights, lastCount, count, scLast,
    \* history (not program state): the stop conditions evaluated by the
    \* current shouldContinue call, the size of each history at that signal's
    \* previous check, the scrollBy calls issued, the parity of the iterations
    \* in which doScroll() returned false
    scTrace, scrollSeen, heightSeen, scScrollBy, scSkipped,
    \* resourceCache: the Map shared by the pages of a run, each page (closed,
    \* request handler routed, response listener attached), the responses the
    \* browser has yet to deliver, the response handlers awaiting res.body(),
    \* the last intercepted request with what its handler did, and the number
    \* of requests intercepted, the last response whose body the response
    \* handler has read (n counts them)
    cache, cachePages, inNet, reading, cacheReq, cacheReqs, cacheRes,
    \* one delivery of a task to the crawler: the request and what its page
    \* shows, the position, request.noRetry, session.retire() called, who
    \* closed the page, the error the handler's catch received, the error
    \* the delivery ends with, the number of map.append calls of the delivery
    hpIn, hpPc, hpNoRetry, hpRetired, hpClosedBy, hpCaught, hpRaised, hpAppends,
    \* the start URL loop over a list: the start URLs of the input, those
    \* still in the request list, those a warning was logged for
    startUrls, startRest, startWarned,
    \* the page timeout of the run: the input, the position in the
    \* computation, the timeout in seconds, the warnings logged
    tmIn, tmPc, handlePageTimeoutSecs, tmWarnings,
    \* the run: the input, the position of the main function, the error it
    \* ended with, the tasks of the queue, the tasks dispatched, the browser
    \* sessions opened, the errors raised inside tasks
    runIn, runPc, runError, runQueue, runDispatched, runSessions, runTaskErrors,
    \* the tasks that are running, the handles of the records of the state in
    \* the order of their insertion, the records still to hand to the output
    \* function, and what the run did so far
    runActive, runState, runToEmit, runLog,
    \* a call of the function that extendFunction returns: what it was built
    \* and called with, the position in its loop, the result of map, the
    \* items, the index of the current item, the result of the transform, the
    \* calls of filter, transform and output so far
    extIn, extPc, extMapped, extItems, extIdx, extResult, extLog,
    \* the record of one handle under the update callbacks that the store
    \* runs one after the other: the stored snapshot, the snapshot that the
    \* last callback received, the last callback, the number of callbacks
    mgSnap, mgPrev, mgOp, mgSteps

urlVars == <<urlIn, urlOp, urlArg, urlOut>>

storeVars == <<map, queue, heap, pc, task, fn, res, postRef, added>>

dateVars == <<dateA, dateB, dateNow, dateOp, window, cmp>>

sampleVars == <<sampleWin, sample, sampleLast>>

startVars == <<startIn, startPc, startUrl, startTodo, requestQueue, startAppends, startUrlCount>>

scrollVars == <<scOpts, scPc, scClosed, scDoScroll, scrolls, heights, lastCount, count,
                scLast, scTrace, scrollSeen, heightSeen, scScrollBy, scSkipped>>

cacheVars == <<cache, cachePages, inNet, reading, cacheReq, cacheReqs, cacheRes>>

hpVars == <<hpIn, hpPc, hpNoRetry, hpRetired, hpClosedBy, hpCaught, hpRaised, hpAppends>>

startListVars == <<startUrls, startRest, startWarned>>
timeoutVars == <<tmIn, tmPc, handlePageTimeoutSecs, tmWarnings>>
runVars == <<runIn, runPc, runError, runQueue, runDispatched, runSessions, runTaskErrors,
             runActive, runState, runToEmit, runLog>>
extVars == <<extIn, extPc, extMapped, extItems, extIdx, extResult, extLog>>
mergeVars == <<mgSnap, mgPrev, mgOp, mgSteps>>

vars == <<urlIn, urlOp, urlArg, urlOut, map, queue, heap, pc, task, fn, res, postRef, added,
          dateVars, sampleVars, startVars, scrollVars, cacheVars, hpVars, startListVars,
          timeoutVars, runVars, extVars, mergeVars>>

(***************************************************************************)
(* Components that a specification does not exercise stay in their idle    *)
(* state; Frame(x) leaves every component but x unchanged.                 *)
(***************************************************************************)
DateIdle ==
    /\ dateA = [type |-> "undefined", s |-> <<>>, n |-> 0]
    /\ dateB = [type |-> "undefined", s |-> <<>>, n |-> 0]
    /\ dateNow = <<0, 0>>
    /\ dateOp = "none"
    /\ window = [kind |-> "none"]
    /\ cmp = [done |-> FALSE]

SampleIdle ==
    /\ sampleWin = [kind |-> "none"]
    /\ sample = [total |-> 0]
    /\ sampleLast = [op |-> "none"]

StartIdle ==
    /\ startIn = [url |-> <<>>]
    /\ startPc = "none"
    /\ startUrl = <<>>
    /\ startTodo = <<>>
    /\ requestQueue = <<>>
    /\ startAppends = <<>>
    /\ startUrlCount = 0

ScrollIdle ==
    /\ scOpts = [selectors |-> FALSE, maybeStop |-> FALSE]
    /\ scPc = "none"
    /\ scClosed = FALSE
    /\ scDoScroll = TRUE
    /\ scrolls = {}
    /\ heights = {}
    /\ lastCount = 0
    /\ count = 0
    /\ scLast = [sampled |-> FALSE]
    /\ scTrace = <<>>
    /\ scrollSeen = 0
    /\ heightSeen = 0
    /\ scScrollBy = 0
    /\ scSkipped = 0

CacheIdle ==
    /\ cache = <<>>
    /\ cachePages = <<>>
    /\ inNet = {}
    /\ reading = {}
    /\ cacheReq = [call |-> "idle"]
    /\ cacheReqs = 0
    /\ cacheRes = [n |-> 0]

HpIdle ==
    /\ hpIn = [label |-> "none"]
    /\ hpPc = "none"
    /\ hpNoRetry = FALSE
    /\ hpRetired = FALSE
    /\ hpClosedBy = "none"
    /\ hpCaught = [kind |-> "none", namespace |-> "none"]
    /\ hpRaised = [kind |-> "none", namespace |-> "none"]
    /\ hpAppends = 0

StartListIdle ==
    /\ startUrls = <<>>
    /\ startRest = <<>>
    /\ startWarned = <<>>

TimeoutIdle ==
    /\ tmIn = [maxPosts |-> 0, maxPostComments |-> 0]
    /\ tmPc = "idle"
    /\ handlePageTimeoutSecs = 0
    /\ tmWarnings = 0

RunIdle ==
    /\ runIn = [present |-> FALSE]
    /\ runPc = "idle"
    /\ runError = "none"
    /\ runQueue = <<>>
    /\ runDispatched = 0
    /\ runSessions = 0
    /\ runTaskErrors = <<>>
    /\ runActive = <<>>
    /\ runState = <<>>
    /\ runToEmit = <<>>
    /\ runLog = <<>>

ExtIdle ==
    /\ extIn = [key |-> "none"]
    /\ extPc = "idle"
    /\ extMapped = [t |-> "undefined", id |-> "", els |-> <<>>]
    /\ extItems = <<>>
    /\ extIdx = 0
    /\ extResult = [t |-> "undefined", id |-> "", els |-> <<>>]
    /\ extLog = <<>>

MergeIdle ==
    /\ mgSnap = [none |-> TRUE]
    /\ mgPrev = [none |-> TRUE]
    /\ mgOp = "idle"
    /\ mgSteps = 0

IdleExcept(x) ==
    /\ IF x = "merge" THEN TRUE ELSE MergeIdle
    /\ IF x = "ext" THEN TRUE ELSE ExtIdle
    /\ IF x = "run" THEN TRUE ELSE RunIdle
    /\ IF x = "timeout" THEN TRUE ELSE TimeoutIdle
    /\ IF x = "startlist" THEN TRUE ELSE StartListIdle
    /\ IF x = "hp" THEN TRUE ELSE HpIdle
    /\ IF x = "cache" THEN TRUE ELSE CacheIdle
    /\ IF x = "scroll" THEN TRUE ELSE ScrollIdle
    /\ IF x \in {"start", "startlist"} THEN TRUE ELSE StartIdle
    /\ IF x = "date" THEN TRUE ELSE DateIdle
    /\ IF x = "sample" THEN TRUE ELSE SampleIdle

Frame(x) ==
    /\ IF x = "merge" THEN TRUE ELSE UNCHANGED mergeVars
    /\ IF x = "ext" THEN TRUE ELSE UNCHANGED extVars
    /\ IF x = "run" THEN TRUE ELSE UNCHANGED runVars
    /\ IF x = "timeout" THEN TRUE ELSE UNCHANGED timeoutVars
    /\ IF x = "startlist" THEN TRUE ELSE UNCHANGED startListVars
    /\ IF x = "hp" THEN TRUE ELSE UNCHANGED hpVars
    /\ IF x = "cache" THEN TRUE ELSE UNCHANGED cacheVars
    /\ IF x = "scroll" THEN TRUE ELSE UNCHANGED scrollVars
    /\ IF x \in {"start", "startlist"} THEN TRUE ELSE UNCHANGED startVars
    /\ IF x = "date" THEN TRUE ELSE UNCHANGED dateVars
    /\ IF x = "sample" THEN TRUE ELSE UNCHANGED sampleVars

(***************************************************************************)
(* Bounds                                                                  *)
(***************************************************************************)
\* path segments + query parameters of an input URL
MaxUrlSize == 4

\* concurrent executions of handlePageFunction
MaxTasks == 2

\* comments one post task collects
MaxComments == 1

(***************************************************************************)
(* String primitives of JavaScript over token sequences                    *)
(***************************************************************************)
MatchAt(s, i, p) == i + Len(p) - 1 <= Len(s) /\ SubSeq(s, i, i + Len(p) - 1) = p

StartsWith(s, p) == MatchAt(s, 1, p)

Includes(s, p) == \E i \in 1..(Len(s) + 1) : MatchAt(s, i, p)

IndexOfStr(s, p) ==
    IF Includes(s, p)
    THEN CHOOSE i \in 1..(Len(s) + 1) :
            MatchAt(s, i, p) /\ \A j \in 1..(i - 1) : ~MatchAt(s, j, p)
    ELSE 0

\* s.replace(p, r) with a string pattern: the first occurrence only
ReplaceFirst(s, p, r) ==
    LET i == IndexOfStr(s, p)
    IN  IF i = 0 THEN s
        ELSE SubSeq(s, 1, i - 1) \o r \o SubSeq(s, i + Len(p), Len(s))

IndexOfTok(s, t) ==
    IF \E i \in 1..Len(s) : s[i] = t
    THEN CHOOSE i \in 1..Len(s) : s[i] = t /\ \A j \in 1..(i - 1) : s[j] # t
    ELSE 0

RECURSIVE SplitTok(_, _)
\* s.split(sep) for a one-token separator
SplitTok(s, sep) ==
    LET i == IndexOfTok(s, sep)
    IN  IF i = 0 THEN <<s>>
        ELSE <<SubSeq(s, 1, i - 1)>> \o SplitTok(SubSeq(s, i + 1, Len(s)), sep)

\* s.split(sep, limit)
SplitLimit(s, sep, limit) ==
    LET parts == SplitTok(s, sep)
    IN  SubSeq(parts, 1, IF Len(parts) < limit THEN Len(parts) ELSE limit)

RECURSIVE JoinTok(_, _)
\* parts.join(sep)
JoinTok(parts, sep) ==
    IF parts = <<>> THEN <<>>
    ELSE IF Len(parts) = 1 THEN parts[1]
    ELSE parts[1] \o <<sep>> \o JoinTok(Tail(parts), sep)

NonEmpty(s) == s # <<>>

Digits == {"1", "2"}

\* the run of digits (\d+, greedy) of s that starts at position i
RECURSIVE DigitRun(_, _)
DigitRun(s, i) ==
    IF i <= Len(s) /\ s[i] \in Digits THEN <<s[i]>> \o DigitRun(s, i + 1) ELSE <<>>

(***************************************************************************)
(* WHATWG URL: parsing, serialisation, setters, URLSearchParams            *)
(***************************************************************************)
Protocols == {"http:", "https:"}

IsValidHref(s) ==
    /\ Len(s) >= 4
    /\ s[1] \in Protocols
    /\ s[2] = "/" /\ s[3] = "/"
    /\ s[4] \notin {"/", "?", "=", "&"}

ParseSearch(qs) ==
    LET parts == SelectSeq(SplitTok(qs, "&"), NonEmpty)
    IN  [i \in 1..Len(parts) |->
            <<parts[i][1], IF Len(parts[i]) >= 3 THEN parts[i][3] ELSE "">>]

\* new URL(s)
ParseURL(s) ==
    LET rest    == SubSeq(s, 4, Len(s))
        q       == IndexOfTok(rest, "?")
        beforeQ == IF q = 0 THEN rest ELSE SubSeq(rest, 1, q - 1)
        qs      == IF q = 0 THEN <<>> ELSE SubSeq(rest, q + 1, Len(rest))
        p       == IndexOfTok(beforeQ, "/")
        host    == IF p = 0 THEN beforeQ ELSE SubSeq(beforeQ, 1, p - 1)
        path    == IF p = 0 THEN <<"/">> ELSE SubSeq(beforeQ, p, Len(beforeQ))
    IN  [protocol |-> s[1], hostname |-> host, pathname |-> path,
         search |-> ParseSearch(qs)]

SearchStr(q) ==
    IF q = <<>> THEN <<>>
    ELSE <<"?">> \o JoinTok([i \in 1..Len(q) |-> <<q[i][1], "=", q[i][2]>>], "&")

\* url.toString()
Href(u) == <<u.protocol, "/", "/">> \o u.hostname \o u.pathname \o SearchStr(u.search)

\* url.pathname = p : the path of a special URL always starts with "/"
SetPathname(u, p) ==
    [u EXCEPT !.pathname = IF StartsWith(p, <<"/">>) THEN p ELSE <<"/">> \o p]

\* searchParams.delete(key): removes every pair of that name
DeleteParam(list, key) == SelectSeq(list, LAMBDA pr : pr[1] # key)

AllKeys(list) == { list[i][1] : i \in 1..Len(list) }

SearchHas(list, key) == \E i \in 1..Len(list) : list[i][1] = key

RECURSIVE ForEachDelete(_, _, _)
\* searchParams.forEach((_, key) => { if (!keep.includes(key)) searchParams.delete(key) })
\* forEach walks the LIVE list by index (WebIDL "iterable" forEach: the list
\* of pairs is re-read after every callback and the index is then advanced),
\* so a deletion shifts the pairs that follow under the index.
ForEachDelete(list, i, keep) ==
    IF i > Len(list) THEN list
    ELSE IF list[i][1] \in keep
         THEN ForEachDelete(list, i + 1, keep)
         ELSE ForEachDelete(DeleteParam(list, list[i][1]), i + 1, keep)

(***************************************************************************)
(* constants.ts                                                            *)
(***************************************************************************)
MOBILE_HOST == <<"m", ".", "facebook.com">>

DESKTOP_HOST == <<"www", ".", "facebook.com">>

DESKTOP_ADDRESS == <<"https:", "/", "/">> \o DESKTOP_HOST

LABELS == [LISTING |-> "LISTING", PHOTO |-> "PHOTO", POST |-> "POST",
           PAGE |-> "PAGE", SEARCH |-> "SEARCH"]

(***************************************************************************)
(* Outcome of a call                                                       *)
(***************************************************************************)
Ret(v) == [kind |-> "return", val |-> v]

Throw(e) == [kind |-> "throw", val |-> e]

(***************************************************************************)
(* functions.ts: URL normalisers                                           *)
(***************************************************************************)
\* the filterParams argument: false | true | string[]
FilterBool(b) == [isArray |-> FALSE, truthy |-> b, items |-> {}]

FilterArray(keys) == [isArray |-> TRUE, truthy |-> TRUE, items |-> keys]

normalizeToMobilePageUrl(url, filterParams) ==
    LET parsedUrl == ParseURL(url)
        u1 == IF ~StartsWith(parsedUrl.pathname, <<"/", "pg">>)
              THEN SetPathname(parsedUrl,
                       <<"/", "pg", "/">> \o
                       JoinTok(SelectSeq(SplitTok(parsedUrl.pathname, "/"), NonEmpty), "/"))
              ELSE parsedUrl
        u2 == [u1 EXCEPT !.hostname = MOBILE_HOST]
        \* the keys the callback returns on before it reaches delete()
        keep == { key \in AllKeys(u2.search) :
                    \/ (filterParams.isArray /\ key \in filterParams.items)
                    \/ ~filterParams.truthy }
    IN  Href([u2 EXCEPT !.search = ForEachDelete(u2.search, 1, keep)])

normalizeOutputPageUrl(url) ==
    LET parsedUrl == ParseURL(url)
        u1 == [parsedUrl EXCEPT !.protocol = "https:", !.hostname = DESKTOP_HOST]
        u2 == [u1 EXCEPT !.search = ForEachDelete(u1.search, 1, {})]
    IN  Href(SetPathname(u2, ReplaceFirst(u2.pathname, <<"/", "pg", "/">>, <<>>)))

(***************************************************************************)
(* functions.ts: storyFbToDesktopPermalink, photoToPost                    *)
(***************************************************************************)
\* url, postId, username: the empty string stands for an absent argument.
\* Returns the URL object (the caller serialises it).
storyFbToDesktopPermalink(url, postId, username) ==
    LET parsed == [ParseURL(url) EXCEPT !.hostname = DESKTOP_HOST]
        u1 == IF postId = <<>>
              THEN IF /\ SearchHas(parsed.search, "story_fbid")
                      /\ SearchHas(parsed.search, "id")
                      /\ ~Includes(parsed.pathname, <<"/", "photos">>)
                      /\ ~Includes(parsed.pathname, <<"/", "video">>)
                   THEN SetPathname(parsed, <<"/", "permalink.php">>)
                   ELSE parsed
              ELSE IF \/ ~Includes(parsed.pathname, <<"/", "permalink.php">>)
                      \/ ~Includes(parsed.pathname, <<"/", "story.php">>)
                   THEN SetPathname(parsed,
                            (IF username # <<>> THEN username
                             ELSE SplitLimit(parsed.pathname, "/", 2)[2])
                            \o <<"/", "posts", "/">> \o postId)
                   ELSE parsed
        keep == IF Includes(u1.pathname, <<"/", "posts">>) THEN {}
                ELSE {"story_fbid", "id", "substory_index", "type"}
        u2 == [u1 EXCEPT !.search = ForEachDelete(u1.search, 1, keep)]
    IN  [u2 EXCEPT !.search = DeleteParam(u2.search, "__tn__")]

\* /\/photos\/a\.(\d+)/ : the position of the first match in s, 0 if none
PhotoMatch(s) ==
    LET Hit(i) == MatchAt(s, i, <<"/", "photos", "/", "a.">>) /\ DigitRun(s, i + 4) # <<>>
    IN  IF \E i \in 1..Len(s) : Hit(i)
        THEN CHOOSE i \in 1..Len(s) : Hit(i) /\ \A j \in 1..(i - 1) : ~Hit(j)
        ELSE 0

photoToPost(url) ==
    LET m == PhotoMatch(url)
    IN  IF m # 0
        THEN Href(storyFbToDesktopPermalink(url, DigitRun(url, m + 4), <<>>))
        ELSE url

(***************************************************************************)
(* functions.ts: getUrlLabel                                               *)
(***************************************************************************)
\* tokens made only of characters of the class [a-z0-9.\-%] (flag i)
ClassTokens == {"pg", "biz", "photos", "posts", "a.", "1", "2", "owner",
                "home", "about", "reviews", "services"}

\* /\/posts\/\d+/.test(s)
PostPattern(s) ==
    \E i \in 1..Len(s) : MatchAt(s, i, <<"/", "posts", "/">>) /\ DigitRun(s, i + 3) # <<>>

\* /\/(pg)?\/?[a-z0-9.\-%]+\/?/i.test(s)
PagePattern(s) ==
    \E i \in 1..Len(s) : \E pg \in {0, 1}, sl \in {0, 1} :
        /\ s[i] = "/"
        /\ pg = 1 => MatchAt(s, i + 1, <<"pg">>)
        /\ sl = 1 => MatchAt(s, i + 1 + pg, <<"/">>)
        /\ i + 1 + pg + sl <= Len(s)
        /\ s[i + 1 + pg + sl] \in ClassTokens

\* getUrlLabel with the /posts/ test placed before the /photos/ test
getUrlLabel_PostFirst(url) ==
    IF url = <<>> THEN Throw("InfoError")
    ELSE LET parsedUrl == ParseURL(url)
         IN  IF Includes(parsedUrl.hostname, <<"facebook.com">>)
             THEN IF StartsWith(parsedUrl.pathname, <<"/", "biz", "/">>) THEN Ret(LABELS.LISTING)
                  ELSE IF PostPattern(parsedUrl.pathname) THEN Ret(LABELS.POST)
                  ELSE IF PhotoMatch(parsedUrl.pathname) # 0 THEN Ret(LABELS.PHOTO)
                  ELSE IF PagePattern(parsedUrl.pathname) THEN Ret(LABELS.PAGE)
                  ELSE Throw("InfoError")
             ELSE Throw("InfoError")

getUrlLabel(url) ==
    IF url = <<>> THEN Throw("InfoError")
    ELSE LET parsedUrl == ParseURL(url)
         IN  IF Includes(parsedUrl.hostname, <<"facebook.com">>)
             THEN IF StartsWith(parsedUrl.pathname, <<"/", "biz", "/">>) THEN Ret(LABELS.LISTING)
                  ELSE IF PhotoMatch(parsedUrl.pathname) # 0 THEN Ret(LABELS.PHOTO)
                  ELSE IF PostPattern(parsedUrl.pathname) THEN Ret(LABELS.POST)
                  ELSE IF PagePattern(parsedUrl.pathname) THEN Ret(LABELS.PAGE)
                  ELSE Throw("InfoError")
             ELSE Throw("InfoError")

(***************************************************************************)
(* functions.ts: generateSubpagesFromUrl                                   *)
(***************************************************************************)
DefaultPages == <<"posts", "about", "reviews", "services">>

Subpage(u, sec) == [url |-> u, section |-> sec, useMobile |-> TRUE]

generateSubpagesFromUrl(url, pages) ==
    LET base == JoinTok(SplitLimit(normalizeToMobilePageUrl(url, FilterBool(TRUE)), "/", 5), "/")
        Sub(sub) ==
            LET subUrl == ParseURL(base)
                u1 == SetPathname(subUrl, subUrl.pathname \o <<"/", sub>>)
            IN  Subpage(Href([u1 EXCEPT !.hostname = MOBILE_HOST]), sub)
    IN  <<Subpage(base, "home")>> \o [i \in 1..Len(pages) |-> Sub(pages[i])]

(***************************************************************************)
(* The state store (storage.ts: statePersistor().map) and the appends of   *)
(* handlePageFunction                                                      *)
(***************************************************************************)
Handles == {"owner", "other"}

PostUrls == {"p1", "p2"}

Tasks == 1..MaxTasks

NoSnap == [none |-> TRUE]

\* emptyState(): the snapshot an update callback gets for a handle never seen
emptyState == [services |-> <<>>, posts |-> <<>>]

\* request of a task; contended records (history only) that the task's append
\* was called while another append of the same handle had not completed
NoTask == [kind |-> "none", handle |-> "owner", services |-> <<>>, postUrl |-> "p1",
           contended |-> FALSE]

\* map.read(handle): the stored snapshot, as it is now
read(handle) == map[handle]

\* the value map.append hands to the update callback
Current(handle) == IF map[handle] = NoSnap THEN emptyState ELSE map[handle]

\* p?.posts?.find((post) => post.postUrl === content.postUrl): 0 if none
FindPost(snap, postUrl) ==
    IF snap = NoSnap \/ \A i \in 1..Len(snap.posts) : heap[snap.posts[i]].postUrl # postUrl
    THEN 0
    ELSE snap.posts[CHOOSE i \in 1..Len(snap.posts) :
                        /\ heap[snap.posts[i]].postUrl = postUrl
                        /\ \A j \in 1..(i - 1) : heap[snap.posts[j]].postUrl # postUrl]

\* the new postContent object of a post task
NewPost(postUrl) == [postUrl |-> postUrl, comments |-> <<>>, count |-> 0]

\* services callback with the earlier services dropped
ServicesUpdate_Overwrite(value, services) == [value EXCEPT !.services = services]

\* { ...value, services: [...(value?.services ?? []), ...services] }
ServicesUpdate(value, services) == [value EXCEPT !.services = value.services \o services]

\* { ...value, posts: [postContent, ...(value?.posts ?? [])] }
NewPostUpdate(value, ref) == [value EXCEPT !.posts = <<ref>> \o value.posts]

\* add callback that replaces the comment list by the new comment
AddComment_Replace(h, ref, comment) ==
    [h EXCEPT ![ref].comments = <<comment>>]

\* postContent.postComments.comments.push(comment)
AddComment(h, ref, comment) ==
    [h EXCEPT ![ref].comments = Append(h[ref].comments, comment)]

\* postContent.postComments.count = postCount
SetCount(h, ref, postCount) == [h EXCEPT ![ref].count = postCount]

InFlight(handle) == { t \in Tasks : pc[t] = "callback" /\ task[t].handle = handle }

Busy(handle) == queue[handle] # <<>> \/ InFlight(handle) # {}

InitStore ==
    /\ map = [h \in Handles |-> NoSnap]
    /\ queue = [h \in Handles |-> <<>>]
    /\ heap = <<>>
    /\ pc = [t \in Tasks |-> "pending"]
    /\ task = [t \in Tasks |-> NoTask]
    /\ fn = [t \in Tasks |-> "none"]
    /\ res = [t \in Tasks |-> NoSnap]
    /\ postRef = [t \in Tasks |-> 0]
    /\ added = [t \in Tasks |-> 0]

\* map.append(handle, callback): the call joins the handle's queue
Enqueue(t, callback) ==
    /\ queue' = [queue EXCEPT ![task[t].handle] = Append(@, t)]
    /\ fn' = [fn EXCEPT ![t] = callback]
    /\ pc' = [pc EXCEPT ![t] = "waiting"]

\* the crawler hands the next request to handlePageFunction (requests are
\* numbered in the order they are handed out)
Started(t) == pc[t] = "pending" /\ \A u \in 1..(t - 1) : pc[u] # "pending"

\* case 'services': append the services found, if any
ServicesTask(t) ==
    /\ Started(t)
    /\ \E h \in Handles, n \in 0..1 :
         LET services == [i \in 1..n |-> t]
         IN  /\ task' = [task EXCEPT ![t] = [kind |-> "services", handle |-> h,
                             services |-> services, postUrl |-> "p1",
                             contended |-> services # <<>> /\ Busy(h)]]
             /\ IF services # <<>>
                THEN /\ queue' = [queue EXCEPT ![h] = Append(@, t)]
                     /\ fn' = [fn EXCEPT ![t] = "services"]
                     /\ pc' = [pc EXCEPT ![t] = "waiting"]
                ELSE pc' = [pc EXCEPT ![t] = "done"] /\ UNCHANGED <<queue, fn>>
    /\ UNCHANGED <<map, heap, res, postRef, added, urlVars>>
    /\ Frame("store")

\* label POST: getPostContent, then the lookup of the post by map.read
PostRead(t) ==
    /\ Started(t)
    /\ \E h \in Handles, u \in PostUrls :
         /\ task' = [task EXCEPT ![t] = [kind |-> "post", handle |-> h,
                         services |-> <<>>, postUrl |-> u, contended |-> FALSE]]
         /\ postRef' = [postRef EXCEPT ![t] = FindPost(read(h), u)]
    /\ pc' = [pc EXCEPT ![t] = "read"]
    /\ UNCHANGED <<map, queue, heap, fn, res, added, urlVars>>
    /\ Frame("store")

\* postContent = existingPost || { ...content, postComments: {...} },
\* appended to the posts of the handle if it is new
PostCreate(t) ==
    /\ pc[t] = "read"
    /\ IF postRef[t] # 0
       THEN /\ pc' = [pc EXCEPT ![t] = "comments"]
            /\ UNCHANGED <<heap, postRef, queue, fn>>
       ELSE /\ heap' = Append(heap, NewPost(task[t].postUrl))
            /\ postRef' = [postRef EXCEPT ![t] = Len(heap) + 1]
            /\ Enqueue(t, "newpost")
    /\ UNCHANGED <<map, task, res, added, urlVars>>
    /\ Frame("store")

\* getPostComments: one more comment is handed to add()
PostAddComment(t) ==
    /\ pc[t] = "comments" /\ added[t] < MaxComments
    /\ Enqueue(t, "comment")
    /\ UNCHANGED <<map, heap, task, res, postRef, added, urlVars>>
    /\ Frame("store")

\* getPostComments has returned: record the count
PostSetCount(t) ==
    /\ pc[t] = "comments"
    /\ Enqueue(t, "count")
    /\ UNCHANGED <<map, heap, task, res, postRef, added, urlVars>>
    /\ Frame("store")

\* the store runs the update callback of the first waiting append of a
\* handle, once no other update of that handle is in flight
StoreRun(t) ==
    /\ pc[t] = "waiting"
    /\ queue[task[t].handle] # <<>> /\ Head(queue[task[t].handle]) = t
    /\ InFlight(task[t].handle) = {}
    /\ queue' = [queue EXCEPT ![task[t].handle] = Tail(@)]
    /\ pc' = [pc EXCEPT ![t] = "callback"]
    /\ LET value == Current(task[t].handle)
       IN  CASE fn[t] = "services" ->
                   /\ res' = [res EXCEPT ![t] = ServicesUpdate(value, task[t].services)]
                   /\ UNCHANGED <<heap, added>>
             [] fn[t] = "newpost" ->
                   /\ res' = [res EXCEPT ![t] = NewPostUpdate(value, postRef[t])]
                   /\ UNCHANGED <<heap, added>>
             [] fn[t] = "comment" ->
                   /\ heap' = AddComment(heap, postRef[t], <<t, added[t] + 1>>)
                   /\ added' = [added EXCEPT ![t] = @ + 1]
                   /\ res' = [res EXCEPT ![t] = value]
             [] fn[t] = "count" ->
                   /\ heap' = SetCount(heap, postRef[t], added[t])
                   /\ res' = [res EXCEPT ![t] = value]
                   /\ UNCHANGED added
    /\ UNCHANGED <<map, task, fn, postRef, urlVars>>
    /\ Frame("store")

\* the callback's promise resolves: its snapshot replaces the stored one
StoreFinish(t) ==
    /\ pc[t] = "callback"
    /\ map' = [map EXCEPT ![task[t].handle] = res[t]]
    /\ pc' = [pc EXCEPT ![t] =
                 IF fn[t] \in {"newpost", "comment"} THEN "comments" ELSE "done"]
    /\ res' = [res EXCEPT ![t] = NoSnap]
    /\ fn' = [fn EXCEPT ![t] = "none"]
    /\ UNCHANGED <<queue, heap, task, postRef, added, urlVars>>
    /\ Frame("store")

InitUrlIdle ==
    /\ urlIn = <<>>
    /\ urlOp = "none"
    /\ urlArg = [isArray |-> FALSE, truthy |-> FALSE, items |-> {}]
    /\ urlOut = [kind |-> "return", val |-> <<>>]

Init == InitStore /\ InitUrlIdle /\ IdleExcept("store")

Next ==
    \E t \in Tasks :
        \/ ServicesTask(t)
        \/ PostRead(t)
        \/ PostCreate(t)
        \/ PostAddComment(t)
        \/ PostSetCount(t)
        \/ StoreRun(t)
        \/ StoreFinish(t)

Spec == Init /\ [][Next]_vars

(***************************************************************************)
(* Inputs                                                                  *)
(***************************************************************************)
Segments == { <<>>, <<"pg">>, <<"biz">>, <<"photos">>, <<"posts">>,
              <<"a.", "1">>, <<"1">>, <<"owner">>, <<"_">> }

Keys == {"a", "b", "c"}

Origins == { <<"http:", "/", "/">> \o DESKTOP_HOST,
             <<"https:", "/", "/">> \o MOBILE_HOST }

\* hosts outside the facebook.com family: one that contains the domain name
\* as a substring, one that has nothing of it
ForeignOrigins == { <<"https:", "/", "/", "not", "facebook.com">>,
                    <<"https:", "/", "/", "example", ".", "org">> }

\* the empty string, and some URLs of the foreign hosts
OtherInputs ==
    { <<>> } \cup
    { o \o p : o \in ForeignOrigins,
               p \in { <<>>, <<"/">>, <<"/", "owner">>, <<"/", "biz", "/", "owner">>,
                        <<"/", "owner", "/", "posts", "/", "1">>,
                        <<"/", "owner", "/", "photos", "/", "a.", "1">>,
                        <<"/", "owner", "?", "a", "=", "1", "&", "b", "=", "1">> } }

RECURSIVE PathOf(_)
PathOf(segs) == IF segs = <<>> THEN <<>> ELSE <<"/">> \o Head(segs) \o PathOf(Tail(segs))

\* an input URL: an origin, n path segments and m query parameters, n + m <= MaxUrlSize
MakeUrl(o, segs, ks) == o \o PathOf(segs) \o SearchStr([i \in 1..Len(ks) |-> <<ks[i], "1">>])

IsUrlInput(u) ==
    \/ u \in OtherInputs
    \/ \E o \in Origins, n \in 0..MaxUrlSize :
         \E segs \in [1..n -> Segments], m \in 0..(MaxUrlSize - n) :
           \E ks \in [1..m -> Keys] : u = MakeUrl(o, segs, ks)

NoArg == [isArray |-> FALSE, truthy |-> FALSE, items |-> {}]

InitUrl ==
    /\ IsUrlInput(urlIn)
    /\ urlOp = "none"
    /\ urlArg = NoArg
    /\ urlOut = Ret(<<>>)
    /\ InitStore
    /\ IdleExcept("url")

DoNormalizeOutput ==
    /\ urlOp = "none"
    /\ urlOp' = "normalizeOutputPageUrl"
    /\ urlOut' = IF IsValidHref(urlIn) THEN Ret(normalizeOutputPageUrl(urlIn))
                 ELSE Throw("TypeError")
    /\ UNCHANGED <<urlIn, urlArg, storeVars>>
    /\ Frame("url")

Filters == { FilterBool(FALSE), FilterBool(TRUE), FilterArray({}), FilterArray({"b"}) }

DoNormalizeToMobile ==
    /\ urlOp = "none"
    /\ \E f \in Filters :
         /\ urlArg' = f
         /\ urlOut' = IF IsValidHref(urlIn) THEN Ret(normalizeToMobilePageUrl(urlIn, f))
                      ELSE Throw("TypeError")
    /\ urlOp' = "normalizeToMobilePageUrl"
    /\ UNCHANGED <<urlIn, storeVars>>
    /\ Frame("url")

DoGetUrlLabel ==
    /\ urlOp = "none"
    /\ urlOp' = "getUrlLabel"
    /\ urlOut' = getUrlLabel(urlIn)
    /\ UNCHANGED <<urlIn, urlArg, storeVars>>
    /\ Frame("url")

DoPhotoToPost ==
    /\ urlOp = "none"
    /\ urlOp' = "photoToPost"
    /\ urlOut' = Ret(photoToPost(urlIn))
    /\ UNCHANGED <<urlIn, urlArg, storeVars>>
    /\ Frame("url")

SectionLists == { DefaultPages, <<>>, <<"reviews", "posts">> }

DoGenerateSubpages ==
    /\ urlOp = "none"
    /\ \E pages \in SectionLists :
         /\ urlArg' = pages
         /\ urlOut' = IF IsValidHref(urlIn) THEN Ret(generateSubpagesFromUrl(urlIn, pages))
                      ELSE Throw("TypeError")
    /\ urlOp' = "generateSubpagesFromUrl"
    /\ UNCHANGED <<urlIn, storeVars>>
    /\ Frame("url")

NextUrl ==
    \/ DoNormalizeOutput
    \/ DoNormalizeToMobile
    \/ DoGetUrlLabel
    \/ DoPhotoToPost
    \/ DoGenerateSubpages

SpecUrl == InitUrl /\ [][NextUrl]_vars

(***************************************************************************)
(* Properties of the URL functions (checked under SpecUrl)                 *)
(***************************************************************************)
Returned(op) == urlOp = op /\ urlOut.kind = "return"

\* the URL shapes of the documentation, stated on the segments of a path
SegsOf(path) == SplitTok(path, "/")

\* a host of the facebook.com family: facebook.com itself or a subdomain
HostInFamily(h) ==
    /\ Len(h) >= 1 /\ h[Len(h)] = "facebook.com"
    /\ (Len(h) = 1 \/ h[Len(h) - 1] = ".")

ListingShape(path) ==
    LET segs == SegsOf(path) IN Len(segs) >= 3 /\ segs[2] = <<"biz">>

PhotoShape(path) ==
    LET segs == SegsOf(path)
    IN  \E i \in 2..(Len(segs) - 1) :
            /\ segs[i] = <<"photos">>
            /\ Len(segs[i + 1]) >= 2
            /\ segs[i + 1][1] = "a." /\ segs[i + 1][2] \in Digits

PostShape(path) ==
    LET segs == SegsOf(path)
    IN  \E i \in 2..(Len(segs) - 1) :
            /\ segs[i] = <<"posts">>
            /\ segs[i + 1] # <<>> /\ segs[i + 1][1] \in Digits

PageShape(path) ==
    LET segs == SegsOf(path)
    IN  \E i \in 2..Len(segs) : segs[i] # <<>> /\ segs[i][1] \in ClassTokens

\* C3 (as claimed): normalizeOutputPageUrl is idempotent:
\* normalizeOutputPageUrl(normalizeOutputPageUrl(u)) = normalizeOutputPageUrl(u).
C3_OutputIdempotent ==
    Returned("normalizeOutputPageUrl") =>
        normalizeOutputPageUrl(urlOut.val) = urlOut.val

\* C4 (as claimed): the result of normalizeOutputPageUrl has scheme https,
\* the desktop host, no query parameter and a path without the /pg/ prefix.
C4_OutputCanonical ==
    Returned("normalizeOutputPageUrl") =>
        LET r == ParseURL(urlOut.val)
        IN  /\ r.protocol = "https:"
            /\ r.hostname = DESKTOP_HOST
            /\ r.search = <<>>
            /\ ~StartsWith(r.pathname, <<"/", "pg", "/">>)

\* the parameters of list whose keys are in the allow-list, in order
AllowedOf(list, f) ==
    SelectSeq(list, LAMBDA pr : f.isArray /\ pr[1] \in f.items)

\* C5 (as claimed): normalizeToMobilePageUrl with a truthy filterParams
\* returns a URL on the mobile host whose path starts with /pg and whose
\* query parameters are exactly the input's parameters with allow-listed
\* keys (none for an empty allow-list or filterParams = true).
C5_MobileAllowList ==
    (Returned("normalizeToMobilePageUrl") /\ urlArg.truthy) =>
        LET r == ParseURL(urlOut.val)
        IN  /\ r.hostname = MOBILE_HOST
            /\ StartsWith(r.pathname, <<"/", "pg">>)
            /\ r.search = AllowedOf(ParseURL(urlIn).search, urlArg)

\* C6 (as claimed): normalizeToMobilePageUrl is idempotent for a fixed
\* filterParams, and a path that already starts with /pg is kept unchanged.
C6_MobileIdempotent ==
    Returned("normalizeToMobilePageUrl") =>
        /\ normalizeToMobilePageUrl(urlOut.val, urlArg) = urlOut.val
        /\ StartsWith(ParseURL(urlIn).pathname, <<"/", "pg">>) =>
               ParseURL(urlOut.val).pathname = ParseURL(urlIn).pathname

\* C7: on a host of the facebook.com family getUrlLabel decides the
\* documented shapes in the precedence Listing (/biz/ prefix), Photo
\* (/photos/a.<digits>), Post (/posts/<digits>), Page (a page path), and
\* returns a label for every URL that has one of these shapes.
C7_LabelPrecedence ==
    (urlOp = "getUrlLabel" /\ IsValidHref(urlIn)
        /\ HostInFamily(ParseURL(urlIn).hostname)) =>
        LET path == ParseURL(urlIn).pathname
        IN  /\ ListingShape(path) => urlOut = Ret("LISTING")
            /\ (~ListingShape(path) /\ PhotoShape(path)) => urlOut = Ret("PHOTO")
            /\ (~ListingShape(path) /\ ~PhotoShape(path) /\ PostShape(path)) =>
                   urlOut = Ret("POST")
            /\ (~ListingShape(path) /\ ~PhotoShape(path) /\ ~PostShape(path)
                   /\ PageShape(path)) => urlOut = Ret("PAGE")

\* C7 witness: a URL with both a /photos/a.<id> and a /posts/<id> part has
\* been classified Photo.
C7_Witness ==
    /\ urlOp = "getUrlLabel" /\ IsValidHref(urlIn)
    /\ HostInFamily(ParseURL(urlIn).hostname)
    /\ PhotoShape(ParseURL(urlIn).pathname) /\ PostShape(ParseURL(urlIn).pathname)
    /\ urlOut = Ret("PHOTO")

\* C8 (as claimed): getUrlLabel throws, and returns no label, for every URL
\* whose host is not of the facebook.com family and for every URL of the
\* family whose path has none of the known shapes (and for the empty URL).
C8_ClassificationError ==
    urlOp = "getUrlLabel" =>
        LET bad == \/ ~IsValidHref(urlIn)
                   \/ ~HostInFamily(ParseURL(urlIn).hostname)
                   \/ LET path == ParseURL(urlIn).pathname
                      IN  ~ListingShape(path) /\ ~PhotoShape(path)
                          /\ ~PostShape(path) /\ ~PageShape(path)
        IN  bad => urlOut = Throw("InfoError")

\* C9 (as claimed): for a URL containing /photos/a.<id>, photoToPost returns
\* the URL with path /<owner>/posts/<id>, owner being the first path segment
\* of the input, and with no query parameter; any other URL is returned
\* unchanged.
C9_PhotoToPost ==
    (urlOp = "photoToPost" /\ IsValidHref(urlIn)) =>
        LET in == ParseURL(urlIn)
            m  == PhotoMatch(urlIn)
        IN  IF m # 0
            THEN LET r == ParseURL(urlOut.val)
                     owner == SegsOf(in.pathname)[2]
                 IN  /\ r.pathname = (IF owner = <<>> THEN <<>> ELSE <<"/">> \o owner)
                                       \o <<"/", "posts", "/">> \o DigitRun(urlIn, m + 4)
                     /\ r.search = <<>>
            ELSE urlOut.val = urlIn

\* <base> of a page URL: the mobile URL cut after the page's own name
BaseOf(url) ==
    LET n == ParseURL(normalizeToMobilePageUrl(url, FilterBool(TRUE)))
    IN  <<n.protocol, "/", "/">> \o MOBILE_HOST
            \o JoinTok(SubSeq(SegsOf(n.pathname), 1,
                    IF Len(SegsOf(n.pathname)) < 3 THEN Len(SegsOf(n.pathname)) ELSE 3), "/")

\* C10 (as claimed): for a Page URL and n section names generateSubpagesFromUrl
\* returns n + 1 sub-tasks: 'home' at <base>, then one per section, in order,
\* at <base>/<section>, all on the mobile host with the same device mode.
C10_Fanout ==
    (Returned("generateSubpagesFromUrl") /\ getUrlLabel(urlIn) = Ret("PAGE")) =>
        LET subs == urlOut.val
        IN  /\ Len(subs) = Len(urlArg) + 1
            /\ subs[1] = Subpage(BaseOf(urlIn), "home")
            /\ \A i \in 1..Len(urlArg) :
                  subs[i + 1] = Subpage(BaseOf(urlIn) \o <<"/", urlArg[i]>>, urlArg[i])
            /\ \A i \in 1..Len(subs) :
                  ParseURL(subs[i].url).hostname = MOBILE_HOST

(***************************************************************************)
(* Properties of the state store and of the appends (checked under Spec)   *)
(***************************************************************************)
Occurrences(seq, x) == Cardinality({ i \in 1..Len(seq) : seq[i] = x })

\* the services appends that have completed on a handle
ServicesDone(h) ==
    { t \in Tasks : /\ task[t].kind = "services" /\ task[t].handle = h
                    /\ task[t].services # <<>> /\ pc[t] = "done" }

\* C1: at most one update callback per handle is in flight, and the record
\* stored for a handle holds the item of every completed services append of
\* that handle exactly once (no item lost, none doubled), however the appends
\* of the tasks interleave.
C1_NoLostUpdate ==
    \A h \in Handles :
        /\ Cardinality(InFlight(h)) <= 1
        /\ \A t \in ServicesDone(h) : Occurrences(Current(h).services, t) = 1
        /\ Len(Current(h).services) = Cardinality(ServicesDone(h))

\* C1 witness: every task has appended one item to the same handle, the
\* appends overlapped, and the stored record holds all the items.
C1_Witness ==
    \E h \in Handles :
        /\ ServicesDone(h) = Tasks
        /\ \E t \in Tasks : task[t].contended
        /\ Len(map[h].services) = MaxTasks

\* the PostRecord objects a stored snapshot refers to
StoredPosts(h) ==
    IF map[h] = NoSnap THEN {} ELSE { map[h].posts[i] : i \in 1..Len(map[h].posts) }

\* C2 (as claimed): a stored snapshot is never modified in place: the
\* PostRecords of a snapshot stored in the map keep their content in every
\* step, also while a post task adds comments.
C2_NoInPlaceMutation ==
    [][\A h \in Handles : \A o \in StoredPosts(h) : heap'[o] = heap[o]]_vars

\* C2 (amended): the snapshot stored for a handle changes only by being
\* replaced, when an update callback completes, by the snapshot that callback
\* returned; a PostRecord object changes only in place, inside an update
\* callback of its post task that starts while no other update of the handle
\* is in flight, and only by one comment pushed at the end of its comment
\* list or by its count being set (postUrl and earlier comments are kept).
C2_InPlaceOnlyCommentThread ==
    [][/\ \A h \in Handles :
            map'[h] # map[h] =>
                \E t \in Tasks : /\ pc[t] = "callback" /\ pc'[t] # "callback"
                                  /\ task[t].handle = h /\ map'[h] = res[t]
       /\ \A o \in 1..Len(heap) :
            heap'[o] # heap[o] =>
                \E t \in Tasks :
                    /\ postRef[t] = o /\ pc[t] = "waiting" /\ pc'[t] = "callback"
                    /\ InFlight(task[t].handle) = {}
                    /\ heap'[o].postUrl = heap[o].postUrl
                    /\ \/ /\ Len(heap'[o].comments) = Len(heap[o].comments) + 1
                          /\ SubSeq(heap'[o].comments, 1, Len(heap[o].comments))
                                = heap[o].comments
                          /\ heap'[o].count = heap[o].count
                       \/ heap'[o].comments = heap[o].comments]_vars

\* C2 witness: a PostRecord of a stored snapshot, which a second task has
\* obtained through read, holds comments pushed in place by both tasks.
C2_Witness ==
    \E h \in Handles : \E o \in StoredPosts(h) :
        /\ Len(heap[o].comments) = 2
        /\ \A t \in Tasks : postRef[t] = o

(***************************************************************************)
(* functions.ts: parseTimeUnit, minMaxDates                                *)
(*                                                                         *)
(* Time is counted in hours since an arbitrary epoch that starts a day.    *)
(* A JavaScript value is [type, s, n]: undefined, a string (tokens) or a   *)
(* number.  A moment object is [set, valid, t]; set = FALSE stands for     *)
(* null, valid = FALSE for moment's "Invalid date".                        *)
(***************************************************************************)
\* the largest timestamp handed to compare()
MaxTime == 104

Undef == [type |-> "undefined", s |-> <<>>, n |-> 0]

Str(s) == [type |-> "string", s |-> s, n |-> 0]

Num(n) == [type |-> "number", s |-> <<>>, n |-> n]

\* !value
Falsy(v) ==
    \/ v.type = "undefined"
    \/ v.type = "string" /\ v.s = <<>>
    \/ v.type = "number" /\ v.n = 0

NullDate == [set |-> FALSE, valid |-> FALSE, t |-> 0]

MomentAt(t) == [set |-> TRUE, valid |-> TRUE, t |-> t]

InvalidMoment == [set |-> TRUE, valid |-> FALSE, t |-> 0]

\* moment(value): a number is a timestamp; none of the strings of the model
\* is a date
moment(value) == IF value.type = "number" THEN MomentAt(value.n) ELSE InvalidMoment

\* a.diff(b): NaN as soon as one of the two is invalid
Diff(a, b) ==
    [nan |-> ~(a.valid /\ b.valid), v |-> IF a.valid /\ b.valid THEN a.t - b.t ELSE 0]

\* the units of the regular expression whose length is a whole number of hours
HoursOf == [hour |-> 1, day |-> 24, week |-> 168]

TimeUnits == DOMAIN HoursOf

NumDigits == {"0", "1", "2"}

RECURSIVE NumRun(_, _)
NumRun(s, i) ==
    IF i <= Len(s) /\ s[i] \in NumDigits THEN <<s[i]>> \o NumRun(s, i + 1) ELSE <<>>

DigitVal(d) == IF d = "0" THEN 0 ELSE IF d = "1" THEN 1 ELSE 2

RECURSIVE NumVal(_)
\* +number
NumVal(ds) ==
    IF ds = <<>> THEN 0
    ELSE 10 * NumVal(SubSeq(ds, 1, Len(ds) - 1)) + DigitVal(ds[Len(ds)])

\* `${value}`.match(/^(\d+)\s?(minute|second|day|hour|month|year|week)s?$/i)
TimeMatch(value) ==
    LET s     == value.s
        num   == NumRun(s, 1)
        rest  == SubSeq(s, Len(num) + 1, Len(s))
        rest2 == IF rest # <<>> /\ rest[1] = " " THEN Tail(rest) ELSE rest
    IN  IF /\ value.type = "string"
           /\ num # <<>>
           /\ Len(rest2) \in 1..2
           /\ rest2[1] \in TimeUnits
           /\ (Len(rest2) = 2 => rest2[2] = "s")
        THEN [ok |-> TRUE, number |-> NumVal(num), unit |-> rest2[1]]
        ELSE [ok |-> FALSE, number |-> 0, unit |-> "hour"]

StartOfDay(t) == t - (t % 24)

\* parseTimeUnit(value), moment() reading the clock as now
parseTimeUnit(value, now) ==
    IF Falsy(value) THEN NullDate
    ELSE IF value = Str(<<"today">>) THEN MomentAt(StartOfDay(now))
    ELSE IF value = Str(<<"yesterday">>) THEN MomentAt(StartOfDay(now - 24))
    ELSE LET m == TimeMatch(value)
         IN  IF m.ok /\ m.number # 0
             THEN MomentAt(now - m.number * HoursOf[m.unit])
             ELSE moment(value)

\* minMaxDates({ min, max }) with a throw on equal bounds too
minMaxDates_ThrowOnEqual(arg, now1, now2) ==
    LET minDate == parseTimeUnit(arg.min, now1)
        maxDate == parseTimeUnit(arg.max, now2)
        d       == Diff(maxDate, minDate)
    IN  IF minDate.set /\ maxDate.set /\ ~d.nan /\ d.v <= 0
        THEN Throw("Error")
        ELSE Ret([minDate |-> minDate, maxDate |-> maxDate])

\* minMaxDates({ min, max }); the clock is read once for each bound
minMaxDates(arg, now1, now2) ==
    LET minDate == parseTimeUnit(arg.min, now1)
        maxDate == parseTimeUnit(arg.max, now2)
        d       == Diff(maxDate, minDate)
    IN  IF minDate.set /\ maxDate.set /\ ~d.nan /\ d.v < 0
        THEN Throw("Error")
        ELSE Ret([minDate |-> minDate, maxDate |-> maxDate])

\* compare(time) with exclusive bounds
compare_Exclusive(w, time) ==
    LET base == moment(time)
        dmin == Diff(w.minDate, base)
        dmax == Diff(w.maxDate, base)
    IN  /\ IF w.minDate.set THEN ~dmin.nan /\ dmin.v < 0 ELSE TRUE
        /\ IF w.maxDate.set THEN ~dmax.nan /\ dmax.v > 0 ELSE TRUE

\* compare(time) of the window w
compare(w, time) ==
    LET base == moment(time)
        dmin == Diff(w.minDate, base)
        dmax == Diff(w.maxDate, base)
    IN  /\ IF w.minDate.set THEN ~dmin.nan /\ dmin.v <= 0 ELSE TRUE
        /\ IF w.maxDate.set THEN ~dmax.nan /\ dmax.v >= 0 ELSE TRUE

\* the orchestrator's post window with minPostDate as the lower bound
postDate_MinIsMin(minPostDate, maxPostDate, now1, now2) ==
    minMaxDates([min |-> minPostDate, max |-> maxPostDate], now1, now2)

\* const postDate = minMaxDates({ max: minPostDate, min: maxPostDate })
postDate(minPostDate, maxPostDate, now1, now2) ==
    minMaxDates([max |-> minPostDate, min |-> maxPostDate], now1, now2)

(***************************************************************************)
(* Inputs and calls of the date window                                     *)
(***************************************************************************)
BoundInputs ==
    { Undef, Str(<<>>), Num(0), Num(52), Num(76),
      Str(<<"today">>), Str(<<"yesterday">>),
      Str(<<"1", "day">>), Str(<<"2", " ", "day", "s">>),
      Str(<<"1", "2", " ", "hour", "s">>),
      Str(<<"0", " ", "day", "s">>), Str(<<"soon">>) }

Clocks == {100, 101}

TimeInputs == { Num(t) : t \in 0..MaxTime } \cup { Str(<<"soon">>) }

DateInit ==
    /\ dateA \in BoundInputs
    /\ dateB \in BoundInputs
    /\ dateNow = <<0, 0>>
    /\ dateOp = "none"
    /\ window = [kind |-> "none"]
    /\ cmp = [done |-> FALSE]

InitDate == InitStore /\ InitUrlIdle /\ IdleExcept("date") /\ DateInit

\* minMaxDates({ min: dateA, max: dateB })
DoMinMaxDates ==
    /\ dateOp = "none"
    /\ \E now1 \in Clocks, d \in 0..1 :
         /\ dateNow' = <<now1, now1 + d>>
         /\ window' = minMaxDates([min |-> dateA, max |-> dateB], now1, now1 + d)
    /\ dateOp' = "minMaxDates"
    /\ UNCHANGED <<dateA, dateB, cmp, urlVars, storeVars>>
    /\ Frame("date")

\* the orchestrator builds postDate from minPostDate = dateA, maxPostDate = dateB
DoPostDate ==
    /\ dateOp = "none"
    /\ \E now1 \in Clocks, d \in 0..1 :
         /\ dateNow' = <<now1, now1 + d>>
         /\ window' = postDate(dateA, dateB, now1, now1 + d)
    /\ dateOp' = "postDate"
    /\ UNCHANGED <<dateA, dateB, cmp, urlVars, storeVars>>
    /\ Frame("date")

\* window.compare(time)
DoCompare ==
    /\ dateOp # "none"
    /\ window.kind = "return"
    /\ ~cmp.done
    /\ \E time \in TimeInputs :
         cmp' = [done |-> TRUE, time |-> time, result |-> compare(window.val, time)]
    /\ UNCHANGED <<dateA, dateB, dateNow, dateOp, window, urlVars, storeVars>>
    /\ Frame("date")

NextDate ==
    \/ DoMinMaxDates
    \/ DoPostDate
    \/ DoCompare

SpecDate == InitDate /\ [][NextDate]_vars

(***************************************************************************)
(* Properties of the date window                                           *)
(***************************************************************************)
\* t is a timestamp and lies at or after the bound b / at or before it
AtOrAfter(time, b) == b.valid /\ time.type = "number" /\ b.t <= time.n

AtOrBefore(time, b) == b.valid /\ time.type = "number" /\ time.n <= b.t

TwoDays == Str(<<"2", " ", "day", "s">>)

OneDay == Str(<<"1", "day">>)

\* C11: compare(t) is inclusive on both bounds: it is true exactly when (min
\* is unset or min <= t) and (max is unset or t <= max); so it is true for
\* every t when both bounds are unset, and for min = now-2d, max = now-1d it
\* is true for now-36h and false for now-3h.
C11_CompareInclusive ==
    cmp.done =>
        LET w == window.val
        IN  /\ cmp.result = ( /\ (~w.minDate.set \/ AtOrAfter(cmp.time, w.minDate))
                              /\ (~w.maxDate.set \/ AtOrBefore(cmp.time, w.maxDate)) )
            /\ (~w.minDate.set /\ ~w.maxDate.set) => cmp.result
            /\ (dateOp = "minMaxDates" /\ dateA = TwoDays /\ dateB = OneDay) =>
                  /\ cmp.time = Num(dateNow[1] - 36) => cmp.result
                  /\ cmp.time = Num(dateNow[1] - 3) => ~cmp.result

\* a compare exactly on the lower bound of the window [now-2d, now-1d]
C11_Witness ==
    /\ dateOp = "minMaxDates" /\ dateA = TwoDays /\ dateB = OneDay
    /\ cmp.done
    /\ cmp.time = Num(dateNow[1] - 48)
    /\ cmp.result

\* the bounds the two parseTimeUnit calls of the last construction produced
MinBound ==
    IF dateOp = "postDate" THEN parseTimeUnit(dateB, dateNow[1])
    ELSE parseTimeUnit(dateA, dateNow[1])

MaxBound ==
    IF dateOp = "postDate" THEN parseTimeUnit(dateA, dateNow[2])
    ELSE parseTimeUnit(dateB, dateNow[2])

EmptyWindow ==
    /\ MinBound.set /\ MinBound.valid
    /\ MaxBound.set /\ MaxBound.valid
    /\ MaxBound.t < MinBound.t

\* C12: a construction whose two bounds both resolve and describe an empty
\* window (max before min) throws and returns no window; with one bound, no
\* bound or equal bounds it returns a window; compare is never called on an
\* empty window.
C12_EmptyWindowThrows ==
    dateOp # "none" =>
        /\ window.kind = "throw" <=> EmptyWindow
        /\ window.kind = "return" <=> ~EmptyWindow
        /\ cmp.done => ~EmptyWindow

\* an empty window was rejected
C12_Witness ==
    /\ dateOp = "minMaxDates"
    /\ dateA = OneDay /\ dateB = TwoDays
    /\ window.kind = "throw"

NoMaxPostDate == dateB = Undef

\* C14 (as claimed): with minPostDate = "2 days" and no maxPostDate the post
\* window accepts exactly the posts newer than 2 days ago.
C14_MinPostDateNewer ==
    (dateOp = "postDate" /\ dateA = TwoDays /\ NoMaxPostDate /\ cmp.done
        /\ cmp.time.type = "number") =>
        /\ cmp.time.n > dateNow[2] - 48 => cmp.result
        /\ cmp.time.n < dateNow[1] - 48 => ~cmp.result

\* C14 (amended): with minPostDate = "2 days" and no maxPostDate the post
\* window has now-2d as its upper bound: compare(t) is true exactly for the
\* timestamps t at or before now-2d, now being the moment minPostDate was
\* parsed.
C14_MinPostDateOlder ==
    (dateOp = "postDate" /\ dateA = TwoDays /\ NoMaxPostDate /\ cmp.done) =>
        cmp.result = (cmp.time.type = "number" /\ cmp.time.n <= dateNow[2] - 48)

\* a post older than two days was accepted by that window
C14_Witness ==
    /\ dateOp = "postDate" /\ dateA = TwoDays /\ NoMaxPostDate
    /\ cmp.done
    /\ cmp.time = Num(dateNow[2] - 50)
    /\ cmp.result

(***************************************************************************)
(* functions.ts: dateRangeItemCounter                                      *)
(***************************************************************************)
\* the largest count of one kind in a sample the counter starts from
MaxSample == 2

\* the calls made on one counter
MaxSampleCalls == 2

\* the pairs (outOfRange, inRange) with (outOfRange + inRange) / total = 0.95
\* for which the sum of the two rounded quotients, outOfRange / total +
\* inRange / total, is the double next above 0.95 (IEEE 754 binary64,
\* round to nearest); totals up to 100
SumRoundsUp ==
    [t \in {20, 40, 60, 80, 100} |->
        CASE t = 20  -> {1, 3, 8, 11, 16, 18}
          [] t = 40  -> {1, 2, 6, 11, 16, 22, 27, 32, 36, 37}
          [] t = 60  -> {1, 3, 5, 7, 9, 11, 24, 26, 31, 33, 46, 48, 50, 52, 54, 56}
          [] t = 80  -> {2, 4, 7, 9, 12, 17, 22, 27, 32, 44, 49, 54, 59, 64, 67, 69,
                         72, 74}
          [] t = 100 -> {2, 3, 4, 5, 14, 15, 16, 17, 27, 28, 39, 40, 55, 56, 67, 68,
                         78, 79, 80, 81, 90, 91, 92, 93}]

\* (outOfRange / total) + (inRange / total) > 0.95
SumGt95(outOfRange, inRange, total) ==
    IF (outOfRange + inRange) * 20 = 19 * total
    THEN total \in DOMAIN SumRoundsUp /\ outOfRange \in SumRoundsUp[total]
    ELSE (outOfRange + inRange) * 20 > 19 * total

\* empty / total > 0.8 (one correctly rounded quotient: as in exact arithmetic)
EmptyGt80(empty, total) == empty * 5 > 4 * total

willCheckRange(w) == w.maxDate.set /\ w.minDate.set

\* isOver() without the test inRange > 0
isOver_AnyRange(c, w) ==
    IF c.calls > 0 /\ c.total > 0
    THEN \/ IF willCheckRange(w)
            THEN SumGt95(c.outOfRange, c.inRange, c.total) ELSE FALSE
         \/ IF c.empty # 0 THEN EmptyGt80(c.empty, c.total) ELSE FALSE
    ELSE FALSE

\* isOver()
isOver(c, w) ==
    IF c.calls > 0 /\ c.total > 0
    THEN \/ IF willCheckRange(w) /\ c.inRange > 0
            THEN SumGt95(c.outOfRange, c.inRange, c.total) ELSE FALSE
         \/ IF c.empty # 0 THEN EmptyGt80(c.empty, c.total) ELSE FALSE
    ELSE FALSE

\* empty(predicate)
CounterEmpty(c, predicate) ==
    [c EXCEPT !.calls = @ + 1, !.empty = IF predicate THEN @ + 1 ELSE @]

\* add(value)
CounterAdd(c, value) == [c EXCEPT !.calls = @ + 1, !.total = @ + value]

\* time(value): the counters after the call
CounterTime(c, w, value) ==
    IF compare(w, value) THEN [c EXCEPT !.inRange = @ + 1]
    ELSE LET dmax == Diff(w.maxDate, moment(value))
             dmin == Diff(w.minDate, moment(value))
         IN  [c EXCEPT
                !.outOfRange = @ + 1,
                !.max = IF ~w.maxDate.set \/ dmax.nan THEN @
                        ELSE IF dmax.v > 0 THEN [@ EXCEPT !.older = @ + 1]
                        ELSE IF dmax.v < 0 THEN [@ EXCEPT !.newer = @ + 1]
                        ELSE @,
                !.min = IF ~w.minDate.set \/ dmin.nan THEN @
                        ELSE IF dmin.v < 0 THEN [@ EXCEPT !.newer = @ + 1]
                        ELSE IF dmin.v > 0 THEN [@ EXCEPT !.older = @ + 1]
                        ELSE @]

(***************************************************************************)
(* Inputs and calls of the counter                                         *)
(***************************************************************************)
SampleWindows ==
    { [minDate |-> a, maxDate |-> b] :
        a \in {NullDate, MomentAt(52)}, b \in {NullDate, MomentAt(76)} }

\* the counters after `total` items were added, `older` items older than the
\* window, `newer` items newer than it and `inside` items within it were
\* timed, and `empty` empty steps were reported
SampleOf(w, total, older, newer, inside, empty) ==
    [total |-> total, outOfRange |-> older + newer, inRange |-> inside,
     empty |-> empty, calls |-> empty + (IF total > 0 THEN 1 ELSE 0),
     max |-> [older |-> IF w.maxDate.set THEN older ELSE 0, newer |-> newer],
     min |-> [older |-> older, newer |-> IF w.minDate.set THEN newer ELSE 0]]

\* samples beyond the small ones: <<total, older, newer, inside, empty>>
LargeSamples ==
    { <<100, 80, 0, 16, 0>>, <<100, 30, 0, 50, 0>>, <<100, 96, 0, 0, 0>>,
      <<100, 40, 40, 15, 0>>, <<20, 1, 0, 18, 0>>, <<20, 0, 2, 17, 0>>,
      <<20, 19, 0, 0, 0>>, <<10, 0, 0, 0, 9>>, <<10, 0, 0, 0, 8>>,
      <<0, 5, 0, 5, 3>> }

SmallSamples == [1..5 -> 0..MaxSample]

IsSampleInput(w, c) ==
    \E x \in SmallSamples \cup LargeSamples :
        /\ (x[2] > 0 => w.minDate.set)
        /\ (x[3] > 0 => w.maxDate.set)
        /\ c = SampleOf(w, x[1], x[2], x[3], x[4], x[5])

SampleInit ==
    /\ sampleWin \in SampleWindows
    /\ IsSampleInput(sampleWin, sample)
    /\ sampleLast = [op |-> "none", n |-> 0, ret |-> FALSE, arg |-> Undef]

InitSample == InitStore /\ InitUrlIdle /\ IdleExcept("sample") /\ SampleInit

DoCounterAdd ==
    /\ sampleLast.n < MaxSampleCalls
    /\ \E value \in 0..1 : sample' = CounterAdd(sample, value)
    /\ sampleLast' = [op |-> "add", n |-> sampleLast.n + 1, ret |-> FALSE, arg |-> Undef]
    /\ UNCHANGED <<sampleWin, urlVars, storeVars>>
    /\ Frame("sample")

DoCounterEmpty ==
    /\ sampleLast.n < MaxSampleCalls
    /\ \E predicate \in BOOLEAN : sample' = CounterEmpty(sample, predicate)
    /\ sampleLast' = [op |-> "empty", n |-> sampleLast.n + 1, ret |-> FALSE, arg |-> Undef]
    /\ UNCHANGED <<sampleWin, urlVars, storeVars>>
    /\ Frame("sample")

SampleTimes == { Num(40), Num(52), Num(60), Num(90), Str(<<"soon">>) }

DoCounterTime ==
    /\ sampleLast.n < MaxSampleCalls
    /\ \E value \in SampleTimes :
         /\ sample' = CounterTime(sample, sampleWin, value)
         /\ sampleLast' = [op |-> "time", n |-> sampleLast.n + 1,
                           ret |-> compare(sampleWin, value), arg |-> value]
    /\ UNCHANGED <<sampleWin, urlVars, storeVars>>
    /\ Frame("sample")

DoIsOver ==
    /\ sampleLast.n < MaxSampleCalls
    /\ sampleLast' = [op |-> "isOver", n |-> sampleLast.n + 1,
                      ret |-> isOver(sample, sampleWin), arg |-> Undef]
    /\ UNCHANGED <<sampleWin, sample, urlVars, storeVars>>
    /\ Frame("sample")

NextSample ==
    \/ DoCounterAdd
    \/ DoCounterEmpty
    \/ DoCounterTime
    \/ DoIsOver

SpecSample == InitSample /\ [][NextSample]_vars

(***************************************************************************)
(* Properties of the counter                                               *)
(***************************************************************************)
Examined == sample.outOfRange + sample.inRange

\* C13 (as claimed): isOver() is true exactly when total > 0 and either
\* (both bounds are set and (outOfRange + inRange) / total > 0.95) or
\* (empty / total > 0.8); a sample with inRange = 0 is declared over as well
\* once the ratio exceeds 0.95.
C13_IsOverAsClaimed ==
    sampleLast.op = "isOver" =>
        sampleLast.ret =
            ( /\ sample.total > 0
              /\ \/ willCheckRange(sampleWin) /\ Examined * 100 > 95 * sample.total
                 \/ sample.empty * 10 > 8 * sample.total )

\* the ratio is exactly 0.95 and the ratio rule applies
OnThreshold ==
    /\ willCheckRange(sampleWin) /\ sample.inRange > 0
    /\ sample.total > 0
    /\ Examined * 100 = 95 * sample.total

\* C13 (amended): isOver() is false when total = 0; otherwise it is true
\* exactly when (both bounds are set, inRange > 0 and outOfRange / total +
\* inRange / total > 0.95) or (empty / total > 0.8).  The two quotients are
\* rounded separately, so at a ratio of exactly 0.95 the first rule may hold.
\* With both bounds set and empty = 0: total=100, outOfRange=80, inRange=16
\* is over; total=100, outOfRange=30, inRange=50 is not; total=100,
\* outOfRange=96, inRange=0 is not.
C13_IsOver ==
    sampleLast.op = "isOver" =>
        /\ sample.total = 0 => ~sampleLast.ret
        /\ sample.empty * 10 > 8 * sample.total /\ sample.total > 0 => sampleLast.ret
        /\ ~OnThreshold =>
             sampleLast.ret =
                ( /\ sample.total > 0
                  /\ \/ /\ willCheckRange(sampleWin) /\ sample.inRange > 0
                        /\ Examined * 100 > 95 * sample.total
                     \/ sample.empty * 10 > 8 * sample.total )
        /\ (willCheckRange(sampleWin) /\ sample.empty = 0 /\ sample.total = 100) =>
             /\ (sample.outOfRange = 80 /\ sample.inRange = 16) => sampleLast.ret
             /\ (sample.outOfRange = 30 /\ sample.inRange = 50) => ~sampleLast.ret
             /\ (sample.outOfRange = 96 /\ sample.inRange = 0) => ~sampleLast.ret

\* isOver() was asked of the sample total=100, outOfRange=80, inRange=16
C13_Witness ==
    /\ sampleLast.op = "isOver" /\ sampleLast.ret
    /\ willCheckRange(sampleWin)
    /\ sample.total = 100 /\ sample.outOfRange = 80 /\ sample.inRange = 16
    /\ sample.empty = 0

(***************************************************************************)
(* functions.ts: extractUsernameFromUrl                                    *)
(***************************************************************************)
RECURSIVE NonSlashRun(_, _)
\* [^/]+ (greedy) from position i
NonSlashRun(s, i) ==
    IF i <= Len(s) /\ s[i] # "/" THEN <<s[i]>> \o NonSlashRun(s, i + 1) ELSE <<>>

\* url.match(/facebook.com(?:\/pg)?\/([^/]+)/)
extractUsernameFromUrl(url) ==
    IF url = <<>> THEN Throw("InfoError")
    ELSE LET i == IndexOfTok(url, "facebook.com")
         IN  IF i = 0 THEN Throw("InfoError")
             ELSE IF /\ MatchAt(url, i + 1, <<"/", "pg", "/">>)
                     /\ NonSlashRun(url, i + 4) # <<>>
                  THEN Ret(NonSlashRun(url, i + 4))
             ELSE IF MatchAt(url, i + 1, <<"/">>) /\ NonSlashRun(url, i + 2) # <<>>
                  THEN Ret(NonSlashRun(url, i + 2))
             ELSE Throw("InfoError")

(***************************************************************************)
(* The start-up phase of the orchestrator: input defaults, pageInfo,       *)
(* initSubPage and the loop over the start URLs (one start URL)            *)
(***************************************************************************)
\* an optional boolean of the input: "undefined", "true" or "false"
Flags == {"undefined", "true", "false"}

\* const { scrapeX = true } = input
DefaultTrue(flag) == flag # "false"

\* pageInfo when an option that is not given counts as off
pageInfo_OptIn(in) ==
    (IF in.scrapePosts = "true" THEN <<"posts">> ELSE <<>>) \o
    (IF in.scrapeReviews = "true" THEN <<"reviews">> ELSE <<>>) \o
    (IF in.scrapeServices = "true" THEN <<"services">> ELSE <<>>)

pageInfo(in) ==
    (IF DefaultTrue(in.scrapePosts) THEN <<"posts">> ELSE <<>>) \o
    (IF DefaultTrue(in.scrapeReviews) THEN <<"reviews">> ELSE <<>>) \o
    (IF DefaultTrue(in.scrapeServices) THEN <<"services">> ELSE <<>>)

\* a request as handed to requestQueue.addRequest (absent fields are empty)
Request(url, label, sub, useMobile, username, canonical, ref) ==
    [url |-> url, label |-> label, sub |-> sub, useMobile |-> useMobile,
     username |-> username, canonical |-> canonical, ref |-> ref]

StartUrls ==
    { o \o p : o \in Origins \cup ForeignOrigins,
               p \in { <<"/", "owner">>, <<"/", "pg", "/", "owner", "/", "posts">>,
                        <<"/", "owner", "?", "a", "=", "1", "&", "b", "=", "1">>,
                        <<"/", "biz", "/", "owner">>,
                        <<"/", "owner", "/", "posts", "/", "1">>,
                        <<"/", "owner", "/", "photos", "/", "a.", "1">>,
                        <<"/">>, <<"/", "pg">> } }

StartInit ==
    /\ \E u \in StartUrls, p \in Flags, r \in Flags, v \in Flags :
         startIn = [url |-> u, scrapePosts |-> p, scrapeReviews |-> r,
                    scrapeServices |-> v]
    /\ startPc = "fetch"
    /\ startUrl = startIn.url
    /\ startTodo = <<>>
    /\ requestQueue = <<>>
    /\ startAppends = <<>>
    /\ startUrlCount = 0

InitStart == InitStore /\ InitUrlIdle /\ IdleExcept("start") /\ StartInit

\* the loop body up to its first await: getUrlLabel and the branch on the
\* label.  An InfoError ends the iteration with a warning, uncounted.
\* (getUrlLabel never returns the Search label.)
StartClassify ==
    /\ startPc = "fetch"
    /\ LET urlType == getUrlLabel(startUrl)
       IN  IF urlType.kind = "throw"
           THEN /\ startPc' = "skipped"
                /\ UNCHANGED <<startUrl, startTodo, requestQueue, startUrlCount>>
           ELSE IF urlType.val = LABELS.PAGE
           THEN /\ startTodo' = generateSubpagesFromUrl(startUrl, pageInfo(startIn))
                /\ startPc' = "subpages"
                /\ UNCHANGED <<startUrl, requestQueue, startUrlCount>>
           ELSE IF urlType.val = LABELS.LISTING
           THEN /\ requestQueue' = Append(requestQueue,
                       Request(startUrl, urlType.val, "", FALSE, <<>>, <<>>, <<>>))
                /\ startUrlCount' = startUrlCount + 1
                /\ startPc' = "counted"
                /\ UNCHANGED <<startUrl, startTodo>>
           ELSE /\ startUrl' = photoToPost(startUrl)
                /\ startPc' = "post"
                /\ UNCHANGED <<startTodo, requestQueue, startUrlCount>>
    /\ UNCHANGED <<startIn, startAppends, urlVars, storeVars>>
    /\ Frame("start")

\* a Post or Photo start URL: extractUsernameFromUrl and the Post request
StartAddPost ==
    /\ startPc = "post"
    /\ LET username == extractUsernameFromUrl(startUrl)
       IN  IF username.kind = "throw"
           THEN startPc' = "skipped" /\ UNCHANGED requestQueue
           ELSE /\ requestQueue' = Append(requestQueue,
                       Request(startUrl, LABELS.POST, "", FALSE, username.val,
                               Href(storyFbToDesktopPermalink(startUrl, <<>>, username.val)),
                               <<>>))
                /\ startPc' = "posthome"
    /\ UNCHANGED <<startIn, startUrl, startTodo, startAppends, startUrlCount, urlVars,
                   storeVars>>
    /\ Frame("start")

\* initSubPage(generateSubpagesFromUrl(url, [])[0], request): "this is for home"
StartPostHome ==
    /\ startPc = "posthome"
    /\ startTodo' = <<generateSubpagesFromUrl(startUrl, <<>>)[1]>>
    /\ startPc' = "subpages"
    /\ UNCHANGED <<startIn, startUrl, requestQueue, startAppends, startUrlCount, urlVars,
                   storeVars>>
    /\ Frame("start")

\* initSubPage(subpage, request) for the next sub-page: 'home' initialises
\* the page record in the state store; the request goes to the front of the
\* queue
StartInitSubPage ==
    /\ startPc = "subpages"
    /\ startTodo # <<>>
    /\ LET subpage  == Head(startTodo)
           username == extractUsernameFromUrl(subpage.url)
       IN  IF subpage.section = "home" /\ username.kind = "throw"
           THEN /\ startPc' = "skipped"
                /\ UNCHANGED <<startTodo, requestQueue, startAppends>>
           ELSE /\ startAppends' =
                     IF subpage.section = "home"
                     THEN Append(startAppends,
                              [handle |-> username.val,
                               pageUrl |-> normalizeOutputPageUrl(subpage.url),
                               url |-> subpage.url, ref |-> startIn.url])
                     ELSE startAppends
                /\ requestQueue' =
                     <<Request(subpage.url, LABELS.PAGE, subpage.section,
                               subpage.useMobile, <<>>, <<>>, startIn.url)>>
                     \o requestQueue
                /\ startTodo' = Tail(startTodo)
                /\ UNCHANGED startPc
    /\ UNCHANGED <<startIn, startUrl, startUrlCount, urlVars, storeVars>>
    /\ Frame("start")

\* startUrlCount++
StartCount ==
    /\ startPc = "subpages"
    /\ startTodo = <<>>
    /\ startUrlCount' = startUrlCount + 1
    /\ startPc' = "counted"
    /\ UNCHANGED <<startIn, startUrl, startTodo, requestQueue, startAppends, urlVars,
                   storeVars>>
    /\ Frame("start")

NextStart ==
    \/ StartClassify
    \/ StartAddPost
    \/ StartPostHome
    \/ StartInitSubPage
    \/ StartCount

SpecStart == InitStart /\ [][NextStart]_vars

(***************************************************************************)
(* Properties of the start-up phase                                        *)
(***************************************************************************)
\* the input sets none of scrapePosts, scrapeReviews, scrapeServices
OnlyStartUrls ==
    /\ startIn.scrapePosts = "undefined"
    /\ startIn.scrapeReviews = "undefined"
    /\ startIn.scrapeServices = "undefined"

\* the start URL is a page URL: a host of the family and the path of a page
StartIsPage ==
    LET u == ParseURL(startIn.url)
    IN  /\ HostInFamily(u.hostname)
        /\ PageShape(u.pathname)
        /\ ~ListingShape(u.pathname) /\ ~PhotoShape(u.pathname) /\ ~PostShape(u.pathname)

\* the sections of the sub-tasks, in the order they were enqueued
RECURSIVE Reversed(_)
Reversed(q) == IF q = <<>> THEN <<>> ELSE Reversed(Tail(q)) \o <<Head(q)>>

EnqueuedSections == LET q == Reversed(requestQueue) IN [i \in 1..Len(q) |-> q[i].sub]

StartPhaseOver == startPc \in {"counted", "skipped"}

\* C15 (as claimed): for an input that sets only startUrls (one page URL),
\* maxPosts and minPostDate, the start URL is classified Page and exactly the
\* sub-tasks 'home' and 'posts' are enqueued, each labelled Page.
C15_HomeAndPostsOnly ==
    (startPc # "none" /\ OnlyStartUrls /\ StartIsPage) =>
        /\ getUrlLabel(startIn.url) = Ret(LABELS.PAGE)
        /\ StartPhaseOver =>
             /\ EnqueuedSections = <<"home", "posts">>
             /\ \A i \in 1..Len(requestQueue) : requestQueue[i].label = LABELS.PAGE

\* C15 (amended): for such an input the start URL is classified Page and the
\* start-up phase enqueues exactly the sub-tasks 'home', 'posts', 'reviews'
\* and 'services' for it, in that order, each labelled Page (scrapeReviews
\* and scrapeServices default to true, as scrapePosts does).
C15_DefaultFanout ==
    (startPc # "none" /\ OnlyStartUrls /\ StartIsPage) =>
        /\ getUrlLabel(startIn.url) = Ret(LABELS.PAGE)
        /\ startPc # "skipped"
        /\ StartPhaseOver =>
             /\ EnqueuedSections = <<"home", "posts", "reviews", "services">>
             /\ \A i \in 1..Len(requestQueue) : requestQueue[i].label = LABELS.PAGE

\* the start-up phase is over for the page URL http://www.facebook.com/owner
C15_Witness ==
    /\ OnlyStartUrls
    /\ startIn.url = <<"http:", "/", "/">> \o DESKTOP_HOST \o <<"/", "owner">>
    /\ startPc = "counted"
    /\ Len(requestQueue) = 4

(***************************************************************************)
(* functions.ts: scrollUntil                                               *)
(*                                                                         *)
(* The function runs between its awaits without interruption; the page can *)
(* be closed, and the caller can change what doScroll returns, while it is *)
(* suspended.  A page.evaluate that is pending when the page closes is      *)
(* rejected, which ends scrollUntil with that exception.                   *)
(***************************************************************************)
\* the scroll steps (count) one run may complete
MaxScrollSteps == 3

\* the largest value a signal takes
MaxSignal == 2

Signals == 0..MaxSignal

\* isChanging(histogram, num): the verdict and the new value of lastCount,
\* the one variable the two signals share (num is a number here)
isChanging(histogram, num, lc) ==
    IF Cardinality(histogram) <= lc
    THEN [ret |-> FALSE, lastCount |-> lc]
    ELSE [ret |-> num \notin histogram, lastCount |-> Cardinality(histogram)]

\* if (num) histogram.add(num)
AddIfTruthy(histogram, num) == IF num # 0 THEN histogram \cup {num} ELSE histogram

NoSample == [sampled |-> FALSE, lastScroll |-> 0, bodyHeight |-> 0,
             scrollChanged |-> FALSE, bodyChanged |-> FALSE]

ScrollInit ==
    /\ scOpts \in [selectors : BOOLEAN, maybeStop : BOOLEAN]
    /\ scPc = "sleep"
    /\ scClosed = FALSE
    /\ scDoScroll \in BOOLEAN
    /\ scrolls = {}
    /\ heights = {}
    /\ lastCount = 0
    /\ count = 0
    /\ scLast = NoSample
    /\ scTrace = <<>>
    /\ scrollSeen = 0
    /\ heightSeen = 0
    /\ scScrollBy = 0
    /\ scSkipped = 0

InitScroll == InitStore /\ InitUrlIdle /\ IdleExcept("scroll") /\ ScrollInit

scrollRest == <<urlVars, storeVars>>

scrollPast == <<scrollRest, scSkipped>>

\* the page or its tab is closed
ClosePage ==
    /\ scPc \notin {"none", "done", "thrown"}
    /\ ~scClosed
    /\ scClosed' = TRUE
    /\ UNCHANGED <<scOpts, scPc, scDoScroll, scrolls, heights, lastCount, count, scLast,
                   scTrace, scrollSeen, heightSeen, scScrollBy, scrollPast>>
    /\ Frame("scroll")

\* the caller changes what its doScroll callback returns
CallerSetsDoScroll ==
    /\ scPc \notin {"none", "done", "thrown"}
    /\ scDoScroll' = ~scDoScroll
    /\ UNCHANGED <<scOpts, scPc, scClosed, scrolls, heights, lastCount, count, scLast,
                   scTrace, scrollSeen, heightSeen, scScrollBy, scrollPast>>
    /\ Frame("scroll")

\* while (true) { await sleep(sleepMillis); if (doScroll()) { ...
\* a false doScroll() goes straight to the next iteration
LoopTop ==
    /\ scPc = "sleep"
    /\ count < MaxScrollSteps \/ scClosed
    /\ IF scDoScroll
       THEN /\ scPc' = "sleepBeforeScroll" /\ scLast' = NoSample /\ scTrace' = <<>>
            /\ UNCHANGED scSkipped
       ELSE /\ scSkipped' = 1 - scSkipped
            /\ UNCHANGED <<scPc, scLast, scTrace>>
    /\ UNCHANGED <<scOpts, scClosed, scDoScroll, scrolls, heights, lastCount, count,
                   scrollSeen, heightSeen, scScrollBy, scrollRest>>
    /\ Frame("scroll")

\* await sleep; if (page.isClosed()) break; page.evaluate(scrollBy)
ScrollBy ==
    /\ scPc = "sleepBeforeScroll"
    /\ IF scClosed
       THEN scPc' = "done" /\ UNCHANGED scScrollBy
       ELSE scPc' = "scrolling" /\ scScrollBy' = scScrollBy + 1
    /\ UNCHANGED <<scOpts, scClosed, scDoScroll, scrolls, heights, lastCount, count, scLast,
                   scTrace, scrollSeen, heightSeen, scrollPast>>
    /\ Frame("scroll")

\* the scrollBy evaluate settles; await sleep
ScrollByDone ==
    /\ scPc = "scrolling"
    /\ scPc' = IF scClosed THEN "thrown" ELSE "sleepAfterScroll"
    /\ UNCHANGED <<scOpts, scClosed, scDoScroll, scrolls, heights, lastCount, count, scLast,
                   scTrace, scrollSeen, heightSeen, scScrollBy, scrollPast>>
    /\ Frame("scroll")

\* if (page.isClosed()) break; page.evaluate(() => window.scrollY)
ReadScrollY ==
    /\ scPc = "sleepAfterScroll"
    /\ scPc' = IF scClosed THEN "done" ELSE "readScroll"
    /\ UNCHANGED <<scOpts, scClosed, scDoScroll, scrolls, heights, lastCount, count, scLast,
                   scTrace, scrollSeen, heightSeen, scScrollBy, scrollPast>>
    /\ Frame("scroll")

\* lastScroll arrives: scrollChanged = isChanging(scrolls, lastScroll);
\* scrolls.add; isClosed; page.evaluate(() => document.body.scrollHeight)
CheckScroll ==
    /\ scPc = "readScroll"
    /\ IF scClosed
       THEN /\ scPc' = "thrown"
            /\ UNCHANGED <<scrolls, lastCount, scLast, scrollSeen>>
       ELSE \E lastScroll \in Signals :
              LET r == isChanging(scrolls, lastScroll, lastCount)
              IN  /\ scLast' = [scLast EXCEPT !.lastScroll = lastScroll,
                                              !.scrollChanged = r.ret]
                  /\ lastCount' = r.lastCount
                  /\ scrolls' = AddIfTruthy(scrolls, lastScroll)
                  /\ scrollSeen' = Cardinality(scrolls)
                  /\ scPc' = "readHeight"
    /\ UNCHANGED <<scOpts, scClosed, scDoScroll, heights, count, scTrace, heightSeen,
                   scScrollBy, scrollPast>>
    /\ Frame("scroll")

\* bodyHeight arrives: bodyChanged = isChanging(heights, bodyHeight);
\* heights.add; await sleep
CheckHeight ==
    /\ scPc = "readHeight"
    /\ IF scClosed
       THEN /\ scPc' = "thrown"
            /\ UNCHANGED <<heights, lastCount, scLast, heightSeen>>
       ELSE \E bodyHeight \in Signals :
              LET r == isChanging(heights, bodyHeight, lastCount)
              IN  /\ scLast' = [scLast EXCEPT !.sampled = TRUE,
                                              !.bodyHeight = bodyHeight,
                                              !.bodyChanged = r.ret]
                  /\ lastCount' = r.lastCount
                  /\ heights' = AddIfTruthy(heights, bodyHeight)
                  /\ heightSeen' = Cardinality(heights)
                  /\ scPc' = "sleepBeforeCheck"
    /\ UNCHANGED <<scOpts, scClosed, scDoScroll, scrolls, count, scTrace, scrollSeen,
                   scScrollBy, scrollPast>>
    /\ Frame("scroll")

\* one evaluated stop condition and whether it held
Evaluated(cond, holds) == [cond |-> cond, holds |-> holds]

\* the end of shouldContinue: true is returned, count++, next iteration
Continue ==
    /\ count' = count + 1
    /\ scPc' = "sleep"

\* after the terminal selectors: the external predicate, if there is one
ThenMaybeStop ==
    IF scOpts.maybeStop THEN scPc' = "maybeStop" /\ UNCHANGED count ELSE Continue

\* shouldContinue up to its first await, the selectors being ignored
StopIfClosed_SkipSelectors ==
    /\ scPc = "sleepBeforeCheck"
    /\ scTrace' = Append(scTrace, Evaluated("closed", scClosed))
    /\ IF scClosed THEN scPc' = "done" /\ UNCHANGED count
       ELSE ThenMaybeStop
    /\ UNCHANGED <<scOpts, scClosed, scDoScroll, scrolls, heights, lastCount, scLast,
                   scrollSeen, heightSeen, scScrollBy, scrollPast>>
    /\ Frame("scroll")

\* await sleep; shouldContinue up to its first await: page.isClosed(), then
\* the evaluate of the selectors or, without selectors, maybeStop
StopIfClosed ==
    /\ scPc = "sleepBeforeCheck"
    /\ scTrace' = Append(scTrace, Evaluated("closed", scClosed))
    /\ IF scClosed THEN scPc' = "done" /\ UNCHANGED count
       ELSE IF scOpts.selectors THEN scPc' = "selectors" /\ UNCHANGED count
       ELSE ThenMaybeStop
    /\ UNCHANGED <<scOpts, scClosed, scDoScroll, scrolls, heights, lastCount, scLast,
                   scrollSeen, heightSeen, scScrollBy, scrollPast>>
    /\ Frame("scroll")

\* foundSelectors arrives: a terminal selector within the viewport or not
SelectorsDone ==
    /\ scPc = "selectors"
    /\ IF scClosed
       THEN scPc' = "thrown" /\ UNCHANGED <<count, scTrace>>
       ELSE \E foundSelectors \in BOOLEAN :
              /\ scTrace' = Append(scTrace, Evaluated("selectors", foundSelectors))
              /\ IF foundSelectors THEN scPc' = "done" /\ UNCHANGED count
                 ELSE ThenMaybeStop
    /\ UNCHANGED <<scOpts, scClosed, scDoScroll, scrolls, heights, lastCount, scLast,
                   scrollSeen, heightSeen, scScrollBy, scrollPast>>
    /\ Frame("scroll")

\* maybeStop({ count, scrollChanged, bodyChanged, ... }) settles
MaybeStopDone ==
    /\ scPc = "maybeStop"
    /\ \E stop \in BOOLEAN :
         /\ scTrace' = Append(scTrace, Evaluated("maybeStop", stop))
         /\ IF stop THEN scPc' = "done" /\ UNCHANGED count ELSE Continue
    /\ UNCHANGED <<scOpts, scClosed, scDoScroll, scrolls, heights, lastCount, scLast,
                   scrollSeen, heightSeen, scScrollBy, scrollPast>>
    /\ Frame("scroll")

\* the steps of scrollUntil itself
ScrollEngine ==
    \/ LoopTop
    \/ ScrollBy
    \/ ScrollByDone
    \/ ReadScrollY
    \/ CheckScroll
    \/ CheckHeight
    \/ StopIfClosed
    \/ SelectorsDone
    \/ MaybeStopDone

NextScroll ==
    \/ ClosePage
    \/ CallerSetsDoScroll
    \/ LoopTop
    \/ ScrollBy
    \/ ScrollByDone
    \/ ReadScrollY
    \/ CheckScroll
    \/ CheckHeight
    \/ StopIfClosed
    \/ SelectorsDone
    \/ MaybeStopDone

SpecScroll == InitScroll /\ [][NextScroll]_vars

\* the event loop resumes scrollUntil whenever the sleep or the call it
\* awaits has settled; nothing is assumed of the page or of the caller
SpecScrollFair == SpecScroll /\ WF_vars(ScrollEngine)

(***************************************************************************)
(* Properties of the scroll engine                                         *)
(***************************************************************************)
\* the stop conditions in the order of the documentation, as configured
StopOrder ==
    <<"closed">> \o (IF scOpts.selectors THEN <<"selectors">> ELSE <<>>)
                 \o (IF scOpts.maybeStop THEN <<"maybeStop">> ELSE <<>>)

StopHeld == scTrace # <<>> /\ scTrace[Len(scTrace)].holds

\* C16: on every scroll step the stop conditions are evaluated in the order
\* page closed, terminal selector visible, external predicate; the first
\* that holds ends the loop; the predicate is not invoked when the page is
\* closed or a selector is visible; no scroll follows a condition that held.
C16_StopOrder ==
    /\ Len(scTrace) <= Len(StopOrder)
    /\ \A i \in 1..Len(scTrace) : scTrace[i].cond = StopOrder[i]
    /\ \A i \in 1..(Len(scTrace) - 1) : ~scTrace[i].holds
    /\ StopHeld => scPc = "done"
    /\ scPc = "maybeStop" =>
          /\ Len(scTrace) = Len(StopOrder) - 1
          /\ \A i \in 1..Len(scTrace) : ~scTrace[i].holds
    /\ (scPc = "sleep" /\ count > 0) =>
          /\ Len(scTrace) = Len(StopOrder)
          /\ \A i \in 1..Len(scTrace) : ~scTrace[i].holds
    /\ scScrollBy \in {count, count + 1}

\* a visible terminal selector ended the loop of a run that has an external
\* predicate, on its second step
C16_Witness ==
    /\ scOpts.selectors /\ scOpts.maybeStop
    /\ count = 1
    /\ scPc = "done"
    /\ scTrace = <<Evaluated("closed", FALSE), Evaluated("selectors", TRUE)>>

\* C17 (as claimed): change detection is kept per signal: a sampled value is
\* reported as changed iff that signal's own history has grown since that
\* signal's previous check and the value is not in that signal's history.
C17_PerSignalChange ==
    [][ /\ (scPc = "readScroll" /\ scPc' = "readHeight") =>
              scLast'.scrollChanged =
                  (Cardinality(scrolls) > scrollSeen /\ scLast'.lastScroll \notin scrolls)
        /\ (scPc = "readHeight" /\ scPc' = "sleepBeforeCheck") =>
              scLast'.bodyChanged =
                  (Cardinality(heights) > heightSeen /\ scLast'.bodyHeight \notin heights)
      ]_vars

ScrollEnded == scPc \in {"done", "thrown"}

\* C18 (as claimed): once the page is closed a running scrollUntil ends, and
\* issues no further scroll, whatever doScroll returns.
C18_CloseEndsScroll ==
    /\ scClosed ~> ScrollEnded
    /\ [][scClosed => scScrollBy' = scScrollBy]_vars

(***************************************************************************)
(* resourceCache (functions.ts): the request and response hooks installed  *)
(* on every page, and the Map they share.  A URL is a token sequence; the  *)
(* substring tests url.includes(x) and path.test(url) are Includes.  The   *)
(* code of a hook between two awaits is one action; a driver call          *)
(* (route.abort, route.fulfill, route.continue, res.body, page.unroute)    *)
(* either resolves or rejects.                                             *)
(***************************************************************************)
\* requests intercepted in one run
MaxRequests == 2

Pages == {"p1", "p2"}

ResourceTypes == {"image", "script", "stylesheet", "font"}

\* URLs of pictures
ImageUrls ==
    { <<"a", ".jpg">>, <<"a", ".jpeg">>, <<"a", ".png">>, <<"a", ".gif">>,
      <<"a", ".svg">>, <<"a", ".gif", "?", ".png">> }

RequestUrls ==
    ImageUrls \cup { <<"static_map.php", "?", ".png">>, <<"a", ".js">>,
                     <<"rsrc.php", "a", ".js">>, <<"rsrc.php", "a", ".woff">> }

\* the requests of a page: a picture and the map are requested as an
\* image, a plain script as a script, a cacheable resource as a script, a
\* stylesheet or a font, and a font under the cacheable path as a font or
\* a stylesheet
RequestInputs ==
    {r \in [url : RequestUrls, type : ResourceTypes] :
        /\ r.url \in ImageUrls => r.type = "image"
        /\ r.url = <<"static_map.php", "?", ".png">> => r.type = "image"
        /\ r.url = <<"a", ".js">> => r.type = "script"
        /\ r.url = <<"rsrc.php", "a", ".js">> => r.type # "image"
        /\ r.url = <<"rsrc.php", "a", ".woff">> => r.type \in {"font", "stylesheet"}}

Buffer(b) == [type |-> "buffer", s |-> b, n |-> 0]

\* the bodies res.body() can resolve to
Bodies == {<<>>, <<"x">>}

\* the header names of a response
ResponseHeaders ==
    { {"content-type", "date", "expires", "last-modified", "content-length", "etag"},
      {"etag"} }

paths == {<<"rsrc.php">>}

Test(path, url) == Includes(url, path)

images ==
    [png |-> [contentType |-> Str(<<"image/png">>), body |-> Buffer(<<"png">>)],
     gif |-> [contentType |-> Str(<<"image/gif">>), body |-> Buffer(<<"gif">>)],
     jpg |-> [contentType |-> Str(<<"image/jpeg">>), body |-> Buffer(<<"jpg">>)]]

\* cache.get(url) of a URL the Map does not hold
Absent ==
    [present |-> FALSE, loaded |-> FALSE, contentType |-> Undef, content |-> Undef,
     headers |-> [defined |-> FALSE, names |-> {}]]

\* the entry { loaded: false }
PendingEntry ==
    [present |-> TRUE, loaded |-> FALSE, contentType |-> Undef, content |-> Undef,
     headers |-> [defined |-> FALSE, names |-> {}]]

Blocklist ==
    { <<".woff">>, <<".webp">>, <<".mov">>, <<".mpeg">>, <<".mpg">>, <<".mp4">>,
      <<".woff", "2">>, <<".ttf">>, <<".ico">>, <<"static_map.php">>, <<"ajax/bz">> }

Blocklisted(url) == \E resource \in Blocklist : Includes(url, resource)

\* the argument of a route call: none for abort and continue
NoRouteArg ==
    [body |-> Undef, contentType |-> Undef, status |-> 0,
     headers |-> [defined |-> FALSE, names |-> {}]]

Stub(image) ==
    [body |-> image.body, contentType |-> image.contentType, status |-> 0,
     headers |-> [defined |-> FALSE, names |-> {}]]

imageStub_GifFirst(url) ==
    IF Includes(url, <<".gif">>) THEN [found |-> TRUE, arg |-> Stub(images.gif)]
    ELSE IF Includes(url, <<".jpg">>) \/ Includes(url, <<".jpeg">>)
    THEN [found |-> TRUE, arg |-> Stub(images.jpg)]
    ELSE IF Includes(url, <<".png">>) THEN [found |-> TRUE, arg |-> Stub(images.png)]
    ELSE [found |-> FALSE, arg |-> NoRouteArg]

\* the three tests of the image branch of the request hook
imageStub(url) ==
    IF Includes(url, <<".jpg">>) \/ Includes(url, <<".jpeg">>)
    THEN [found |-> TRUE, arg |-> Stub(images.jpg)]
    ELSE IF Includes(url, <<".png">>) THEN [found |-> TRUE, arg |-> Stub(images.png)]
    ELSE IF Includes(url, <<".gif">>) THEN [found |-> TRUE, arg |-> Stub(images.gif)]
    ELSE [found |-> FALSE, arg |-> NoRouteArg]

cached_Unmarked(url, c) ==
    IF c[url].present /\ c[url].loaded
    THEN [call |-> "fulfill",
          arg |-> [body |-> c[url].content, contentType |-> c[url].contentType,
                   status |-> 200, headers |-> c[url].headers],
          cache |-> c]
    ELSE [call |-> "continue", arg |-> NoRouteArg, cache |-> c]

\* the script / stylesheet branch of the request hook
cached(url, c) ==
    IF c[url].present /\ c[url].loaded
    THEN [call |-> "fulfill",
          arg |-> [body |-> c[url].content, contentType |-> c[url].contentType,
                   status |-> 200, headers |-> c[url].headers],
          cache |-> c]
    ELSE [call |-> "continue", arg |-> NoRouteArg, cache |-> [c EXCEPT ![url] = PendingEntry]]

request_StubFirst(closed, url, type, c) ==
    IF closed THEN [call |-> "none", arg |-> NoRouteArg, cache |-> c]
    ELSE IF type = "image" /\ imageStub(url).found
    THEN [call |-> "fulfill", arg |-> imageStub(url).arg, cache |-> c]
    ELSE IF Blocklisted(url) THEN [call |-> "abort", arg |-> NoRouteArg, cache |-> c]
    ELSE IF type = "image" THEN [call |-> "continue", arg |-> NoRouteArg, cache |-> c]
    ELSE IF type \in {"script", "stylesheet"} /\ \E path \in paths : Test(path, url)
    THEN cached(url, c)
    ELSE [call |-> "continue", arg |-> NoRouteArg, cache |-> c]

\* the request hook up to its route call: the call it makes, the argument
\* of the call and the Map it leaves
request(closed, url, type, c) ==
    IF closed THEN [call |-> "none", arg |-> NoRouteArg, cache |-> c]
    ELSE IF Blocklisted(url) THEN [call |-> "abort", arg |-> NoRouteArg, cache |-> c]
    ELSE IF type = "image"
    THEN IF imageStub(url).found
         THEN [call |-> "fulfill", arg |-> imageStub(url).arg, cache |-> c]
         ELSE [call |-> "continue", arg |-> NoRouteArg, cache |-> c]
    ELSE IF type \in {"script", "stylesheet"} /\ \E path \in paths : Test(path, url)
    THEN cached(url, c)
    ELSE [call |-> "continue", arg |-> NoRouteArg, cache |-> c]

routeCalls_AbortFallsThrough(closed, url, type, c) ==
    IF closed THEN <<>>
    ELSE (IF Blocklisted(url) THEN <<"abort">> ELSE <<>>)
         \o (IF type = "image" /\ imageStub(url).found THEN <<"fulfill">>
             ELSE IF /\ type \in {"script", "stylesheet"}
                     /\ \E path \in paths : Test(path, url)
                     /\ c[url].present /\ c[url].loaded
             THEN <<"fulfill">>
             ELSE <<"continue">>)

\* the route calls the request hook makes for one request, in order: every
\* call is followed by a return or is the last statement of the try block
routeCalls(closed, url, type, c) ==
    IF closed THEN <<>>
    ELSE IF Blocklisted(url) THEN <<"abort">>
    ELSE IF type = "image" /\ imageStub(url).found THEN <<"fulfill">>
    ELSE IF /\ type \in {"script", "stylesheet"}
            /\ \E path \in paths : Test(path, url)
            /\ c[url].present /\ c[url].loaded
    THEN <<"fulfill">>
    ELSE <<"continue">>

\* cleanup(): page.unroute resolves and the listener is removed, or it
\* rejects and the listener stays
cleanup(pg, unrouted) ==
    IF unrouted THEN [pg EXCEPT !.routed = FALSE, !.listening = FALSE] ELSE pg

StrippedHeaders == {"date", "expires", "last-modified", "content-length"}

LoadedEntry_AllHeaders(buffer, names) ==
    [present |-> TRUE,
     loaded |-> Len(buffer) > 0,
     contentType |-> IF "content-type" \in names THEN Str(<<"text/javascript">>) ELSE Undef,
     content |-> Buffer(buffer),
     headers |-> [defined |-> TRUE, names |-> names]]

\* the entry the response hook stores
LoadedEntry(buffer, names) ==
    [present |-> TRUE,
     loaded |-> Len(buffer) > 0,
     contentType |-> IF "content-type" \in names THEN Str(<<"text/javascript">>) ELSE Undef,
     content |-> Buffer(buffer),
     headers |-> [defined |-> TRUE, names |-> names \ StrippedHeaders]]

CacheInit ==
    /\ cache = [u \in RequestUrls |-> Absent]
    /\ cachePages = [p \in Pages |-> [installed |-> FALSE, closed |-> FALSE,
                                       routed |-> FALSE, listening |-> FALSE]]
    /\ inNet = {}
    /\ reading = {}
    /\ cacheReq = [call |-> "idle"]
    /\ cacheReqs = 0
    /\ cacheRes = [n |-> 0]

InitCache == InitStore /\ InitUrlIdle /\ IdleExcept("cache") /\ CacheInit

\* await cache(page) in the page set-up, once for a page
CacheInstall(p) ==
    /\ ~cachePages[p].installed
    /\ ~cachePages[p].closed
    /\ cachePages' = [cachePages EXCEPT ![p].installed = TRUE, ![p].routed = TRUE,
                                        ![p].listening = TRUE]
    /\ UNCHANGED <<cache, inNet, reading, cacheReq, cacheReqs, cacheRes, urlVars, storeVars>>
    /\ Frame("cache")

\* a page on which the hooks were installed is closed
CachePageClose(p) ==
    /\ cachePages[p].installed
    /\ ~cachePages[p].closed
    /\ cachePages' = [cachePages EXCEPT ![p].closed = TRUE]
    /\ UNCHANGED <<cache, inNet, reading, cacheReq, cacheReqs, cacheRes, urlVars, storeVars>>
    /\ Frame("cache")

\* await cleanup() of a hook of page p
Cleanup(p) ==
    \E unrouted \in BOOLEAN : cachePages' = [cachePages EXCEPT ![p] = cleanup(@, unrouted)]

\* the request hook runs for a request of page p; resolved says whether
\* its route call resolves.  Of the requests that go to the network, those
\* for a script or a stylesheet are remembered in inNet until their
\* response arrives.
CacheRequest(p, url, type, resolved) ==
    /\ cachePages[p].routed
    /\ cacheReqs < MaxRequests
    /\ \E d \in {request(cachePages[p].closed, url, type, cache)} :
         LET failed == d.call # "none" /\ ~resolved
         IN
           /\ cache' = d.cache
           /\ IF d.call = "none" \/ failed THEN Cleanup(p) ELSE UNCHANGED cachePages
           /\ inNet' = IF d.call = "continue" /\ resolved /\ type \in {"script", "stylesheet"}
                       THEN inNet \cup {[page |-> p, url |-> url, type |-> type]}
                       ELSE inNet
           /\ cacheReq' = [call |-> d.call, arg |-> d.arg, page |-> p, url |-> url,
                           type |-> type, closed |-> cachePages[p].closed,
                           resolved |-> ~failed,
                           calls |-> routeCalls(cachePages[p].closed, url, type, cache)]
    /\ cacheReqs' = cacheReqs + 1
    /\ UNCHANGED <<reading, cacheRes, urlVars, storeVars>>
    /\ Frame("cache")

\* a response that is neither a script nor a stylesheet arrives on page p
\* (its document, an image, a font, ...): the response hook runs
CacheOtherResponse(p) ==
    /\ cachePages[p].listening
    /\ IF cachePages[p].closed THEN Cleanup(p) ELSE UNCHANGED cachePages
    /\ UNCHANGED <<cache, inNet, reading, cacheReq, cacheReqs, cacheRes, urlVars, storeVars>>
    /\ Frame("cache")

\* the response of a continued script or stylesheet request arrives: the
\* response hook runs up to its await of res.body()
CacheResponse(r) ==
    /\ r \in inNet
    /\ inNet' = inNet \ {r}
    /\ IF ~cachePages[r.page].listening
       THEN UNCHANGED <<cachePages, reading>>
       ELSE IF cachePages[r.page].closed
       THEN /\ Cleanup(r.page)
            /\ UNCHANGED reading
       ELSE /\ reading' = IF /\ r.type \in {"script", "stylesheet"}
                             /\ cache[r.url].present
                             /\ ~cache[r.url].loaded
                          THEN reading \cup {r}
                          ELSE reading
            /\ UNCHANGED cachePages
    /\ UNCHANGED <<cache, cacheReq, cacheReqs, cacheRes, urlVars, storeVars>>
    /\ Frame("cache")

\* res.body() resolves with a buffer; names are the header names that
\* res.headers() then returns: the response hook stores the entry
CacheResponseBody(x, buffer, names) ==
    /\ x \in reading
    /\ reading' = reading \ {x}
    /\ cache' = [cache EXCEPT ![x.url] = LoadedEntry(buffer, names)]
    /\ cacheRes' = [n |-> cacheRes.n + 1, url |-> x.url, type |-> x.type,
                    buffer |-> buffer, names |-> names]
    /\ UNCHANGED <<cachePages, inNet, cacheReq, cacheReqs, urlVars, storeVars>>
    /\ Frame("cache")

\* res.body() rejects: the response hook cleans up
CacheResponseFailed(x) ==
    /\ x \in reading
    /\ reading' = reading \ {x}
    /\ Cleanup(x.page)
    /\ UNCHANGED <<cache, inNet, cacheReq, cacheReqs, cacheRes, urlVars, storeVars>>
    /\ Frame("cache")

NextCache ==
    \/ \E p \in Pages : CacheInstall(p)
    \/ \E p \in Pages : CachePageClose(p)
    \/ \E p \in Pages, r \in RequestInputs, resolved \in BOOLEAN :
            CacheRequest(p, r.url, r.type, resolved)
    \/ \E p \in Pages : CacheOtherResponse(p)
    \/ \E r \in inNet : CacheResponse(r)
    \/ \E x \in reading, buffer \in Bodies, names \in ResponseHeaders :
            CacheResponseBody(x, buffer, names)
    \/ \E x \in reading : CacheResponseFailed(x)

SpecCache == InitCache /\ [][NextCache]_vars

(***************************************************************************)
(* Properties of the request hook                                          *)
(***************************************************************************)
\* this step is a run of the request hook
Intercepted == cacheReqs' = cacheReqs + 1

\* the blocklist, written out
InBlocklist(url) ==
    \E x \in {".woff", ".webp", ".mov", ".mpeg", ".mpg", ".mp4", ".ttf", ".ico",
              "static_map.php", "ajax/bz"} : \E i \in 1..Len(url) : url[i] = x

HasExt(url, x) == \E i \in 1..Len(url) : url[i] = x

OpenImage ==
    /\ Intercepted
    /\ cacheReq'.type = "image"
    /\ ~cacheReq'.closed
    /\ ~InBlocklist(cacheReq'.url)

\* C20 as claimed: every image request that is not blocklisted is
\* fulfilled locally with an image stub and never reaches the network,
\* whatever the extension of its URL.
C20_EveryImageStubbed ==
    [][OpenImage
         => /\ cacheReq'.call = "fulfill"
            /\ cacheReq'.arg.body \in {images.jpg.body, images.png.body, images.gif.body}]_vars

\* C20: an image request that is not blocklisted, intercepted on an open
\* page, is fulfilled locally and not continued when its URL contains .jpg,
\* .jpeg, .png or .gif: with the JPEG stub if it contains .jpg or .jpeg,
\* else with the PNG stub if it contains .png, else with the GIF stub, the
\* content type being the stub's own; an image request whose URL contains
\* none of the four is continued to the network.
C20_KnownImagesStubbed ==
    [][OpenImage
         => LET u == cacheReq'.url
                jpg == HasExt(u, ".jpg") \/ HasExt(u, ".jpeg")
                png == HasExt(u, ".png")
                gif == HasExt(u, ".gif")
                stubbed(body, ct) ==
                    /\ cacheReq'.call = "fulfill"
                    /\ cacheReq'.arg.body = Buffer(<<body>>)
                    /\ cacheReq'.arg.contentType = Str(<<ct>>)
            IN  /\ jpg => stubbed("jpg", "image/jpeg")
                /\ ~jpg /\ png => stubbed("png", "image/png")
                /\ ~jpg /\ ~png /\ gif => stubbed("gif", "image/gif")
                /\ ~jpg /\ ~png /\ ~gif => cacheReq'.call = "continue"
                /\ cache' = cache]_vars

\* an image whose URL contains both .gif and .png has been fulfilled with
\* the PNG stub
C20_Witness ==
    /\ cacheReq.call = "fulfill"
    /\ cacheReq.type = "image"
    /\ cacheReq.url = <<"a", ".gif", "?", ".png">>
    /\ cacheReq.arg = Stub(images.png)
    /\ cacheReq.resolved

(***************************************************************************)
(* Properties of the cache                                                 *)
(***************************************************************************)
\* this step is a run of the request hook on an open page for a script or
\* a stylesheet whose URL matches a configured path and is not blocklisted
EligibleRequest ==
    /\ Intercepted
    /\ ~cacheReq'.closed
    /\ cacheReq'.type \in {"script", "stylesheet"}
    /\ HasExt(cacheReq'.url, "rsrc.php")
    /\ ~InBlocklist(cacheReq'.url)

\* this step is the response hook storing the body it has read
Stored == cacheRes'.n = cacheRes.n + 1

ServedFrom(entry) ==
    /\ cacheReq'.call = "fulfill"
    /\ cacheReq'.arg.body = entry.content
    /\ cacheReq'.arg.contentType = entry.contentType
    /\ cacheReq'.arg.headers = entry.headers
    /\ cacheReq'.arg.status = 200

\* C21 as claimed: the first request for a cache-eligible URL marks the
\* entry pending and continues; once the response hook has stored a
\* response for the URL the entry is loaded, and every request for the URL
\* after that, from any page, is fulfilled from the cache.
C21_HitAfterResponse ==
    [][/\ EligibleRequest /\ ~cache[cacheReq'.url].present
            => /\ cacheReq'.call = "continue"
               /\ cache'[cacheReq'.url].present
               /\ ~cache'[cacheReq'.url].loaded
       /\ Stored => cache'[cacheRes'.url].loaded
       /\ EligibleRequest /\ cache[cacheReq'.url].headers.defined
            => ServedFrom(cache[cacheReq'.url])]_vars

\* C21: a request for a cache-eligible URL, from any page, is fulfilled
\* from the cache with the stored body, content type and headers when the
\* entry is loaded at that moment, and leaves the cache as it was;
\* otherwise it marks the entry pending and continues to the network.  The
\* response hook's store leaves the entry loaded exactly when the body it
\* read is not empty.
C21_HitWhileLoaded ==
    [][/\ EligibleRequest /\ ~cache[cacheReq'.url].loaded
            => /\ cacheReq'.call = "continue"
               /\ cache'[cacheReq'.url].present
               /\ ~cache'[cacheReq'.url].loaded
       /\ Stored => cache'[cacheRes'.url].loaded = (cacheRes'.buffer # <<>>)
       /\ EligibleRequest /\ cache[cacheReq'.url].loaded
            => /\ ServedFrom(cache[cacheReq'.url])
               /\ cache' = cache]_vars

\* after a miss and a stored response, a second request for the URL, made
\* by the other page, has been fulfilled from the cache
C21_Witness ==
    /\ cacheReqs = 2
    /\ cacheRes.n = 1
    /\ cacheReq.url = <<"rsrc.php", "a", ".js">>
    /\ cacheReq.page = "p2"
    /\ cacheReq.call = "fulfill"
    /\ cacheReq.arg.status = 200
    /\ cacheReq.arg.body = Buffer(<<"x">>)
    /\ cacheReq.resolved
    /\ ~cachePages["p2"].closed
    /\ cachePages["p1"].closed

\* C22: no step removes an entry of the cache or turns a loaded entry into
\* one that is not loaded.
C22_NeverDowngraded ==
    [][\A u \in RequestUrls :
          /\ cache[u].present => cache'[u].present
          /\ cache[u].loaded => cache'[u].loaded]_vars

\* the entry a response with this body and these headers is claimed to leave
Expected(loaded) ==
    /\ cache'[cacheRes'.url].present
    /\ cache'[cacheRes'.url].loaded = loaded
    /\ cache'[cacheRes'.url].content = Buffer(cacheRes'.buffer)
    /\ cache'[cacheRes'.url].contentType # Undef <=> "content-type" \in cacheRes'.names
    /\ cache'[cacheRes'.url].headers.defined
    /\ cache'[cacheRes'.url].headers.names =
           cacheRes'.names \ {"date", "expires", "last-modified", "content-length"}
    /\ \A u \in RequestUrls \ {cacheRes'.url} : cache'[u] = cache[u]

\* a response step (no request is intercepted) that stores nothing
OtherResponseStep == cacheReqs' = cacheReqs /\ ~Stored

\* the response hook only starts to read the body of a script or a
\* stylesheet whose entry is pending
ReadsOnlyPending ==
    \A r \in reading' \ reading :
        /\ r.type \in {"script", "stylesheet"}
        /\ cache[r.url].present
        /\ ~cache[r.url].loaded

MaxAppends == 2

NoError == [kind |-> "none", namespace |-> "none"]

InfoError(namespace) == [kind |-> "InfoError", namespace |-> namespace]

\* an exception that is not an InfoError; namespace tells where it came from
PlainError(origin) == [kind |-> "Error", namespace |-> origin]

\* label and section of a request
RequestKinds ==
    { [label |-> "LISTING", sub |-> "none"], [label |-> "SEARCH", sub |-> "none"],
      [label |-> "POST", sub |-> "none"] }
    \cup [label : {"PAGE"}, sub : {"home", "services", "about", "posts", "reviews"}]

\* what the page shows: it landed on the mobile host, it redirected to the
\* login (?next=), a captcha, the layout selectors attached, the error page
\* or a status 500, the not-found page
Situations ==
    [onMobileHost : BOOLEAN, login : BOOLEAN, captcha : BOOLEAN, layout : BOOLEAN,
     errorPage : BOOLEAN, notFound : BOOLEAN]

PoisonNamespaces_WithNotFound ==
    {"captcha", "mobile-meta", "getFieldInfos", "internal", "login", "threshold",
     "isNotFoundPage"}

\* the namespaces on which the catch retires the session and closes the page
PoisonNamespaces ==
    {"captcha", "mobile-meta", "getFieldInfos", "internal", "login", "threshold"}

\* the postNavigationHook: the error it throws, if any
postNavigation(in) ==
    IF in.sit.onMobileHost /\ ~in.useMobile THEN InfoError("internal") ELSE NoError

\* the checks handlePageFunction makes before the work of the label: the
\* error it throws, if any
precheck(in) ==
    IF in.sit.login THEN InfoError("login")
    ELSE IF in.useMobile /\ in.sit.captcha THEN InfoError("captcha")
    ELSE IF in.useMobile /\ ~in.sit.layout THEN InfoError("mobile-meta")
    ELSE IF ~in.useMobile /\ in.sit.captcha THEN InfoError("captcha")
    ELSE IF in.sit.errorPage THEN InfoError("internal")
    ELSE IF /\ in.label \notin {"LISTING", "SEARCH", "POST"}
            /\ in.sub # "posts"
            /\ in.sit.notFound
    THEN InfoError("isNotFoundPage")
    ELSE NoError

\* the errors the work of a label can end with: services and reviews catch
\* their own, posts and post tasks throw the threshold error
WorkErrors(in) ==
    IF in.label = "PAGE" /\ in.sub \in {"services", "reviews"} THEN {NoError}
    ELSE IF in.label = "POST" \/ (in.label = "PAGE" /\ in.sub = "posts")
    THEN {NoError, InfoError("threshold"), PlainError("work")}
    ELSE IF in.label = "PAGE"
    THEN {NoError, InfoError("getFieldInfos"), PlainError("work")}
    ELSE {NoError, PlainError("work")}

\* the map.append calls the work of a label can make
WorkAppends(in) ==
    IF in.label = "PAGE" /\ in.sub = "posts" THEN {0}
    ELSE IF in.label = "PAGE" /\ in.sub \in {"home", "about"} THEN {1}
    ELSE IF in.label = "PAGE" THEN {0, 1}
    ELSE 0..MaxAppends

HpInit ==
    /\ hpIn \in {[label |-> k.label, sub |-> k.sub, useMobile |-> m, sit |-> sit] :
                    k \in RequestKinds, m \in BOOLEAN, sit \in Situations}
    /\ hpPc = "postNavigation"
    /\ hpNoRetry = FALSE
    /\ hpRetired = FALSE
    /\ hpClosedBy = "none"
    /\ hpCaught = NoError
    /\ hpRaised = NoError
    /\ hpAppends = 0

InitHp == InitStore /\ InitUrlIdle /\ IdleExcept("hp") /\ HpInit

\* postNavigationHooks[0]
HpPostNavigation ==
    /\ hpPc = "postNavigation"
    /\ IF postNavigation(hpIn) = NoError
       THEN /\ hpPc' = "handle"
            /\ UNCHANGED <<hpClosedBy, hpRaised>>
       ELSE /\ hpClosedBy' = "hook"
            /\ hpRaised' = postNavigation(hpIn)
            /\ hpPc' = "failed"
    /\ UNCHANGED <<hpIn, hpNoRetry, hpRetired, hpCaught, hpAppends, urlVars, storeVars>>
    /\ Frame("hp")

\* handlePageFunction, from its start to the dispatch on the label
HpChecks ==
    /\ hpPc = "handle"
    /\ hpNoRetry' = (precheck(hpIn) = InfoError("isNotFoundPage"))
    /\ hpCaught' = precheck(hpIn)
    /\ hpPc' = IF precheck(hpIn) = NoError THEN "work" ELSE "catch"
    /\ UNCHANGED <<hpIn, hpRetired, hpClosedBy, hpRaised, hpAppends, urlVars, storeVars>>
    /\ Frame("hp")

\* the work of the label: it appends n times and ends with e
HpWork(n, e) ==
    /\ hpPc = "work"
    /\ n \in WorkAppends(hpIn)
    /\ e \in WorkErrors(hpIn)
    /\ hpAppends' = n
    /\ hpCaught' = e
    /\ hpPc' = IF e = NoError THEN "finally" ELSE "catch"
    /\ UNCHANGED <<hpIn, hpNoRetry, hpRetired, hpClosedBy, hpRaised, urlVars, storeVars>>
    /\ Frame("hp")

\* the catch block; closed says whether browserController.close resolves
HpCatch(closed) ==
    /\ hpPc = "catch"
    /\ IF hpCaught.kind = "InfoError" /\ hpCaught.namespace \in PoisonNamespaces
       THEN /\ hpRetired' = TRUE
            /\ hpClosedBy' = "handler"
            /\ hpRaised' = IF closed THEN hpCaught ELSE PlainError("close")
       ELSE /\ hpRaised' = hpCaught
            /\ UNCHANGED <<hpRetired, hpClosedBy>>
    /\ hpPc' = "finally"
    /\ UNCHANGED <<hpIn, hpNoRetry, hpCaught, hpAppends, urlVars, storeVars>>
    /\ Frame("hp")

\* the finally block: the HANDLE hook of extendScraperFunction returns or throws
HpFinally(returned) ==
    /\ hpPc = "finally"
    /\ hpRaised' = IF returned THEN hpRaised ELSE PlainError("hook")
    /\ hpPc' = IF returned /\ hpRaised = NoError THEN "done" ELSE "failed"
    /\ UNCHANGED <<hpIn, hpNoRetry, hpRetired, hpClosedBy, hpCaught, hpAppends,
                   urlVars, storeVars>>
    /\ Frame("hp")

NextHp ==
    \/ HpPostNavigation
    \/ HpChecks
    \/ \E n \in 0..MaxAppends, e \in {NoError, PlainError("work")}
                                     \cup {InfoError(ns) : ns \in {"threshold", "getFieldInfos"}} :
            HpWork(n, e)
    \/ \E closed \in BOOLEAN : HpCatch(closed)
    \/ \E returned \in BOOLEAN : HpFinally(returned)

SpecHp == InitHp /\ [][NextHp]_vars

(***************************************************************************)
(* Properties of the error policy                                          *)
(***************************************************************************)
DeliveryOver == hpPc \in {"done", "failed"}

\* the error a delivery failed with: the one the handler caught, or the
\* one a hook raised without the handler running
Failure == IF hpCaught # NoError THEN hpCaught ELSE hpRaised

Poisoning == {"captcha", "login", "internal", "mobile-meta", "threshold"}

\* C24: a delivery that fails with an error record whose namespace is
\* captcha, login, internal, mobile-meta or threshold has its session
\* retired and its page closed, and ends with an error; one that fails with
\* an error that is not a taxonomy record has its session kept and its page
\* left open by the handler, and ends with an error; an error the handler
\* caught is never swallowed.
C24_SessionPoisoning ==
    DeliveryOver =>
        /\ Failure.kind = "InfoError" /\ Failure.namespace \in Poisoning
             => hpRetired /\ hpClosedBy # "none" /\ hpPc = "failed"
        /\ Failure.kind = "Error"
             => ~hpRetired /\ hpClosedBy # "handler" /\ hpPc = "failed"
        /\ hpCaught # NoError => hpPc = "failed"

\* C25: once a task has detected the not-found page, request.noRetry is
\* set (from the detection on, so before the error leaves the handler),
\* the session is not retired, the page is not closed, and the delivery has
\* made no map.append call.
C25_NotFound ==
    hpCaught = InfoError("isNotFoundPage") =>
        /\ hpNoRetry
        /\ ~hpRetired
        /\ hpClosedBy = "none"
        /\ hpAppends = 0
        /\ DeliveryOver => hpPc = "failed"

\* a reviews task has found the not-found page and its delivery has ended
\* with that error
C25_Witness ==
    /\ hpPc = "failed"
    /\ hpIn.label = "PAGE"
    /\ hpIn.sub = "reviews"
    /\ hpCaught = InfoError("isNotFoundPage")
    /\ hpRaised = InfoError("isNotFoundPage")
    /\ hpNoRetry

(***************************************************************************)
(* The start URL loop over the whole request list (main file): the loop    *)
(* body is the one of the start-up phase above; its catch and the fetch of *)
(* the next request are added.                                             *)
(***************************************************************************)
\* start URLs of an input
MaxStartUrls == 2

\* a page, a listing, a post, a URL of a foreign host and a URL without a
\* path
ListUrls ==
    { <<"http:", "/", "/">> \o DESKTOP_HOST \o p :
         p \in { <<"/", "owner">>, <<"/", "biz", "/", "owner">>,
                 <<"/", "owner", "/", "posts", "/", "1">>, <<"/">> } }
    \cup { <<"https:", "/", "/", "example", ".", "org", "/", "owner">> }

RECURSIVE UrlLists(_)
UrlLists(n) ==
    IF n = 0 THEN {<<>>}
    ELSE {<<>>} \cup {<<u>> \o l : u \in ListUrls, l \in UrlLists(n - 1)}

StartListInit ==
    /\ startUrls \in UrlLists(MaxStartUrls) \ {<<>>}
    /\ startRest = Tail(startUrls)
    /\ startWarned = <<>>
    /\ startIn = [url |-> startUrls[1], scrapePosts |-> "undefined",
                  scrapeReviews |-> "undefined", scrapeServices |-> "undefined"]
    /\ startPc = "fetch"
    /\ startUrl = startUrls[1]
    /\ startTodo = <<>>
    /\ requestQueue = <<>>
    /\ startAppends = <<>>
    /\ startUrlCount = 0

InitStartList == InitStore /\ InitUrlIdle /\ IdleExcept("startlist") /\ StartListInit

StartCatch_Rethrow ==
    /\ startPc = "skipped"
    /\ startPc' = "aborted"
    /\ UNCHANGED <<startIn, startUrl, startTodo, requestQueue, startAppends, startUrlCount,
                   startUrls, startRest, startWarned, urlVars, storeVars>>
    /\ Frame("startlist")

\* the catch of the loop body: the exceptions of the loop body are
\* InfoErrors, which are logged as a warning and end the iteration
StartCatch ==
    /\ startPc = "skipped"
    /\ startWarned' = Append(startWarned, startIn.url)
    /\ startPc' = "warned"
    /\ UNCHANGED <<startIn, startUrl, startTodo, requestQueue, startAppends, startUrlCount,
                   startUrls, startRest, urlVars, storeVars>>
    /\ Frame("startlist")

\* the next request of fromStartUrls(startUrls)
StartNextUrl ==
    /\ startPc \in {"counted", "warned"}
    /\ startRest # <<>>
    /\ startIn' = [startIn EXCEPT !.url = Head(startRest)]
    /\ startUrl' = Head(startRest)
    /\ startRest' = Tail(startRest)
    /\ startTodo' = <<>>
    /\ startPc' = "fetch"
    /\ UNCHANGED <<requestQueue, startAppends, startUrlCount, startUrls, startWarned,
                   urlVars, storeVars>>
    /\ Frame("startlist")

NextStartList ==
    \/ NextStart
    \/ StartCatch
    \/ StartNextUrl

SpecStartList == InitStartList /\ [][NextStartList]_vars

(***************************************************************************)
(* Properties of the start URL loop                                        *)
(***************************************************************************)
\* the loop is at a start URL that the classifier rejects
AtUnclassifiable == startPc = "fetch" /\ getUrlLabel(startIn.url).kind = "throw"

\* the loop has left the last start URL
StartLoopOver == startPc \in {"counted", "warned"} /\ startRest = <<>>

\* some request of the queue was made for the start URL u
EnqueuedFor(u) ==
    \E i \in 1..Len(requestQueue) : requestQueue[i].url = u \/ requestQueue[i].ref = u

MaxVolume == 3

\* 0x7FFFFFFF
MAX_TIMEOUT == 2147483647
\* the factor the code multiplies the seconds with
MS_FACTOR == 60000
\* the volume used when maxPostComments + maxPosts is 0
DEFAULT_VOLUME == 10
\* the seconds added to every timeout
MIN_TIMEOUT_SECS == 600

\* volumes next to which the input's maxPostComments is drawn: next to 0,
\* to the volume from which the code clamps, and to the volume from which the
\* seconds no longer fit in MAX_TIMEOUT milliseconds
VolumeBases == {0, 7330, 447265}

TimeoutInputs ==
    [maxPosts : 0..MaxVolume,
     maxPostComments : {b + k : b \in VolumeBases, k \in 0..MaxVolume}]

\* Math.round(60 * (v * 0.08)): 4.8 * v has a fraction of 0, .2, .4, .6 or
\* .8, so rounding to the nearest integer is floor(4.8 * v + 0.5)
Round48(v) == (48 * v + 5) \div 10

\* Math.round(60 * (((maxPostComments + maxPosts) || 10) * 0.08)) + 600
Scaled(in) ==
    LET sum == in.maxPostComments + in.maxPosts
    IN  Round48(IF sum # 0 THEN sum ELSE DEFAULT_VOLUME) + MIN_TIMEOUT_SECS

\* handlePageTimeoutSecs * 60000 >= 0x7FFFFFFF
TooHigh(secs) == secs > (MAX_TIMEOUT - 1) \div MS_FACTOR

\* Math.floor(0x7FFFFFFF / 60000)
Clamped == MAX_TIMEOUT \div MS_FACTOR

TimeoutInit ==
    /\ tmIn \in TimeoutInputs
    /\ tmPc = "scale"
    /\ handlePageTimeoutSecs = 0
    /\ tmWarnings = 0

InitTimeout == InitStore /\ InitUrlIdle /\ IdleExcept("timeout") /\ TimeoutInit

\* let handlePageTimeoutSecs = ...
TimeoutScale ==
    /\ tmPc = "scale"
    /\ handlePageTimeoutSecs' = Scaled(tmIn)
    /\ tmPc' = "check"
    /\ UNCHANGED <<tmIn, tmWarnings, urlVars, storeVars>>
    /\ Frame("timeout")

\* if (handlePageTimeoutSecs * 60000 >= 0x7FFFFFFF) { log.warning; clamp }
TimeoutClamp ==
    /\ tmPc = "check"
    /\ IF TooHigh(handlePageTimeoutSecs)
       THEN /\ tmWarnings' = tmWarnings + 1
            /\ handlePageTimeoutSecs' = Clamped
       ELSE UNCHANGED <<tmWarnings, handlePageTimeoutSecs>>
    /\ tmPc' = "done"
    /\ UNCHANGED <<tmIn, urlVars, storeVars>>
    /\ Frame("timeout")

NextTimeout ==
    \/ TimeoutScale
    \/ TimeoutClamp

SpecTimeout == InitTimeout /\ [][NextTimeout]_vars

(***************************************************************************)
(* Properties of the page timeout                                          *)
(***************************************************************************)
\* the largest number of seconds that fits in MAX_TIMEOUT milliseconds (the
\* crawler takes handlePageTimeoutSecs in seconds, 1000 milliseconds each)
LargestSecs == MAX_TIMEOUT \div 1000

\* C27: once the timeout is computed it is at least 600 seconds; if the
\* scaled seconds exceed MAX_TIMEOUT milliseconds the timeout is the largest
\* number of seconds that fits and one warning was logged, and in every other
\* case it is the scaled value and no warning was logged.
C27_ClampIffOverflow ==
    tmPc = "done" =>
       /\ handlePageTimeoutSecs >= MIN_TIMEOUT_SECS
       /\ IF Scaled(tmIn) > LargestSecs
          THEN handlePageTimeoutSecs = LargestSecs /\ tmWarnings = 1
          ELSE handlePageTimeoutSecs = Scaled(tmIn) /\ tmWarnings = 0

(***************************************************************************)
(* The run (main file): validation of the input, the date windows of the   *)
(* input, the start URLs, the crawler and the date windows that the tasks  *)
(* build from the override of their start URL.                             *)
(***************************************************************************)
\* start URLs of an input of the run
MaxRunUrls == 2

\* the languages of languages.json that the model knows of
LANGUAGES == {"en-US"}

\* the dates of an input: none, an earlier one and a later one
RunDates == {Undef, Num(52), Num(76)}

\* a key that an override does not have
NoKey == [type |-> "nokey", s |-> <<>>, n |-> 0]

\* request.userData.override of a start URL: none, or dates for the posts
\* and for the comments
Overrides ==
    { [has |-> FALSE, minDate |-> NoKey, maxDate |-> NoKey] }
    \cup [has : {TRUE}, minDate : RunDates \cup {NoKey}, maxDate : RunDates \cup {NoKey}]

\* the handles of the run
RunHandles == {"h1", "h2"}

\* a start URL of the run: a page (its posts section is crawled) or a post
RunUrls == [kind : {"page", "post"}, override : Overrides, handle : {"h1"}]

RECURSIVE RunUrlLists(_)
RunUrlLists(n) ==
    IF n = 0 THEN {<<>>}
    ELSE {<<>>} \cup {<<u>> \o l : u \in RunUrls, l \in RunUrlLists(n - 1)}

RunInputs ==
    { [present |-> FALSE] }
    \cup [present : {TRUE}, startUrls : RunUrlLists(1), language : {"en-US", "xx"},
          minPostDate : RunDates, maxPostDate : RunDates,
          minCommentDate : {Undef}, maxCommentDate : {Undef}, extendOutput : {"blank"}]
    \cup [present : {TRUE}, startUrls : RunUrlLists(MaxRunUrls) \ RunUrlLists(1),
          language : {"en-US"},
          minPostDate : {Undef}, maxPostDate : {Undef},
          minCommentDate : RunDates, maxCommentDate : RunDates, extendOutput : {"blank"}]

\* start URLs without an override: pages, posts and listings of any handle
PlainUrls ==
    [kind : {"page", "post", "listing"},
     override : {[has |-> FALSE, minDate |-> NoKey, maxDate |-> NoKey]},
     handle : RunHandles]

RECURSIVE PlainUrlLists(_)
PlainUrlLists(n) ==
    IF n = 0 THEN {<<>>}
    ELSE {<<>>} \cup {<<u>> \o l : u \in PlainUrls, l \in PlainUrlLists(n - 1)}

\* valid inputs without dates: any start URLs without an extendOutputFunction
\* of the user, one start URL with one
PlainInputs ==
    [present : {TRUE}, startUrls : PlainUrlLists(MaxRunUrls) \ {<<>>}, language : {"en-US"},
     minPostDate : {Undef}, maxPostDate : {Undef},
     minCommentDate : {Undef}, maxCommentDate : {Undef}, extendOutput : {"blank"}]
    \cup [present : {TRUE}, startUrls : PlainUrlLists(1) \ {<<>>}, language : {"en-US"},
          minPostDate : {Undef}, maxPostDate : {Undef},
          minCommentDate : {Undef}, maxCommentDate : {Undef}, extendOutput : {"script"}]

\* { ...input, ...override }[key]
Setting(inputValue, overrideValue) ==
    IF overrideValue = NoKey THEN inputValue ELSE overrideValue

\* the window that the branch of a task builds: of the post dates in the
\* posts section, of the comment dates in a post; "none" when it builds none
TaskWindow(in, t, now1, now2) ==
    LET lo == Setting(IF t.kind = "page" THEN in.minPostDate ELSE in.minCommentDate,
                      t.override.minDate)
        hi == Setting(IF t.kind = "page" THEN in.maxPostDate ELSE in.maxCommentDate,
                      t.override.maxDate)
    IN  IF t.override.has /\ (~Falsy(hi) \/ ~Falsy(lo))
        THEN minMaxDates([min |-> hi, max |-> lo], now1, now2)
        ELSE [kind |-> "none"]

\* what the run did: a hook, a task, persistState, a record handed to
\* extendOutputFunction, a record pushed to the dataset
Did(ev, h) == [ev |-> ev, h |-> h]

\* map.append(username, ...) of initSubPage on the keys of the state: a new
\* key goes to the end, a known key keeps its place
WithRecord(state, h) ==
    IF \E i \in 1..Len(state) : state[i] = h THEN state ELSE Append(state, h)

RECURSIVE WithRecords(_, _)
\* the records that the start URL loop initializes: the home page of every
\* page and every post
WithRecords(state, urls) ==
    IF urls = <<>> THEN state
    ELSE WithRecords(IF Head(urls).kind \in {"page", "post"}
                     THEN WithRecord(state, Head(urls).handle) ELSE state, Tail(urls))

RunStart ==
    /\ runPc = "input"
    /\ runError = "none"
    /\ runQueue = <<>>
    /\ runDispatched = 0
    /\ runSessions = 0
    /\ runTaskErrors = <<>>
    /\ runActive = <<>>
    /\ runState = <<>>
    /\ runToEmit = <<>>
    /\ runLog = <<>>

RunInit ==
    /\ runIn \in RunInputs
    /\ RunStart

InitRun == InitStore /\ InitUrlIdle /\ IdleExcept("run") /\ RunInit

RunOrderInit ==
    /\ runIn \in PlainInputs
    /\ RunStart

InitRunOrder == InitStore /\ InitUrlIdle /\ IdleExcept("run") /\ RunOrderInit

\* the checks of the input up to the language
RunValidate ==
    /\ runPc = "input"
    /\ IF ~runIn.present
       THEN runPc' = "aborted" /\ runError' = "Missing input"
       ELSE IF runIn.startUrls = <<>>
       THEN runPc' = "aborted" /\ runError' = "startUrls"
       ELSE IF runIn.language \notin LANGUAGES
       THEN runPc' = "aborted" /\ runError' = "language"
       ELSE runPc' = "windows" /\ runError' = runError
    /\ UNCHANGED <<runIn, runQueue, runDispatched, runSessions, runTaskErrors,
                   runActive, runState, runToEmit, runLog, urlVars, storeVars>>
    /\ Frame("run")

\* postDate, commentDate and reviewDate of the input
RunWindows ==
    /\ runPc = "windows"
    /\ \E now1 \in Clocks, d \in 0..1 :
         LET post    == minMaxDates([max |-> runIn.minPostDate, min |-> runIn.maxPostDate],
                                    now1, now1 + d)
             comment == minMaxDates([min |-> runIn.maxCommentDate,
                                     max |-> runIn.minCommentDate], now1, now1 + d)
         IN  IF post.kind = "throw" \/ comment.kind = "throw"
             THEN runPc' = "aborted" /\ runError' = "DateWindow"
             ELSE runPc' = "start" /\ runError' = runError
    /\ UNCHANGED <<runIn, runQueue, runDispatched, runSessions, runTaskErrors,
                   runActive, runState, runToEmit, runLog, urlVars, storeVars>>
    /\ Frame("run")

\* the start URL loop: a request for every start URL, with its override,
\* and a record for the home page of every page and post
RunEnqueue ==
    /\ runPc = "start"
    /\ runQueue' = runIn.startUrls
    /\ runState' = WithRecords(runState, runIn.startUrls)
    /\ runPc' = "setup"
    /\ UNCHANGED <<runIn, runError, runDispatched, runSessions, runTaskErrors,
                   runActive, runToEmit, runLog, urlVars, storeVars>>
    /\ Frame("run")

RunSetup_Skipped ==
    /\ runPc = "setup"
    /\ \E ok \in BOOLEAN :
         /\ runPc' = IF ok THEN "running" ELSE "failed"
         /\ runLog' = runLog
    /\ UNCHANGED <<runIn, runError, runQueue, runDispatched, runSessions, runTaskErrors,
                   runActive, runState, runToEmit, urlVars, storeVars>>
    /\ Frame("run")

\* await extendScraperFunction(undefined, { label: 'SETUP', crawler }): the
\* hook returns or throws
RunSetup ==
    /\ runPc = "setup"
    /\ \E ok \in BOOLEAN :
         /\ runPc' = IF ok THEN "running" ELSE "failed"
         /\ runLog' = Append(runLog, Did("SETUP", "none"))
    /\ UNCHANGED <<runIn, runError, runQueue, runDispatched, runSessions, runTaskErrors,
                   runActive, runState, runToEmit, urlVars, storeVars>>
    /\ Frame("run")

\* crawler.run() delivers the next task: a session and a page are opened
\* for it, and its branch builds the window of its override
RunTask ==
    /\ runPc = "running"
    /\ runQueue # <<>>
    /\ runQueue' = Tail(runQueue)
    /\ runActive' = Append(runActive, Head(runQueue))
    /\ runDispatched' = runDispatched + 1
    /\ runSessions' = runSessions + 1
    /\ runLog' = Append(runLog, Did("task", Head(runQueue).handle))
    /\ \E now1 \in Clocks, d \in 0..1 :
         LET w == TaskWindow(runIn, Head(runQueue), now1, now1 + d)
         IN  runTaskErrors' = IF w.kind = "throw"
                              THEN Append(runTaskErrors, "DateWindow")
                              ELSE runTaskErrors
    /\ UNCHANGED <<runIn, runPc, runError, runState, runToEmit, urlVars, storeVars>>
    /\ Frame("run")

\* a running task ends; a listing has found a page, initialized its record
\* and put its task at the front of the queue
RunTaskEnd ==
    /\ runPc = "running"
    /\ \E i \in 1..Len(runActive) :
         /\ runActive' = SubSeq(runActive, 1, i - 1) \o SubSeq(runActive, i + 1, Len(runActive))
         /\ IF runActive[i].kind = "listing"
            THEN \E h \in RunHandles :
                   /\ runState' = WithRecord(runState, h)
                   /\ runQueue' = <<[runActive[i] EXCEPT !.kind = "page", !.handle = h]>>
                                  \o runQueue
            ELSE UNCHANGED <<runState, runQueue>>
         /\ runLog' = Append(runLog, Did("taskEnd", runActive[i].handle))
    /\ UNCHANGED <<runIn, runPc, runError, runDispatched, runSessions, runTaskErrors,
                   runToEmit, urlVars, storeVars>>
    /\ Frame("run")

\* crawler.run() returns once the queue is empty and no task is running
RunFinish ==
    /\ runPc = "running"
    /\ runQueue = <<>>
    /\ runActive = <<>>
    /\ runPc' = "finished"
    /\ UNCHANGED <<runIn, runError, runQueue, runDispatched, runSessions, runTaskErrors,
                   runActive, runState, runToEmit, runLog, urlVars, storeVars>>
    /\ Frame("run")

\* await extendScraperFunction(undefined, { label: 'FINISH', crawler })
RunFinishHook ==
    /\ runPc = "finished"
    /\ \E ok \in BOOLEAN :
         /\ runPc' = IF ok THEN "persist" ELSE "failed"
         /\ runLog' = Append(runLog, Did("FINISH", "none"))
    /\ UNCHANGED <<runIn, runError, runQueue, runDispatched, runSessions, runTaskErrors,
                   runActive, runState, runToEmit, urlVars, storeVars>>
    /\ Frame("run")

\* await persistState(), and the start of the loop over state.values()
RunPersist ==
    /\ runPc = "persist"
    /\ runLog' = Append(runLog, Did("persist", "none"))
    /\ runToEmit' = runState
    /\ runPc' = "emit"
    /\ UNCHANGED <<runIn, runError, runQueue, runDispatched, runSessions, runTaskErrors,
                   runActive, runState, urlVars, storeVars>>
    /\ Frame("run")

\* the values that output is called with for a record: the record itself
\* without an extendOutputFunction, and else none, the record or two values
Pushes(in, h) ==
    IF in.extendOutput = "blank" THEN { <<Did("push", h)>> }
    ELSE { <<>>, <<Did("push", h)>>, <<Did("push", h), Did("push", h)>> }

\* await extendOutputFunction(page, {}) for the next record of the state
RunEmit ==
    /\ runPc = "emit"
    /\ runToEmit # <<>>
    /\ \E pushes \in Pushes(runIn, Head(runToEmit)) :
         runLog' = Append(runLog, Did("emit", Head(runToEmit))) \o pushes
    /\ runToEmit' = Tail(runToEmit)
    /\ UNCHANGED <<runIn, runPc, runError, runQueue, runDispatched, runSessions,
                   runTaskErrors, runActive, runState, urlVars, storeVars>>
    /\ Frame("run")

\* the loop over state.values() is over
RunDone ==
    /\ runPc = "emit"
    /\ runToEmit = <<>>
    /\ runPc' = "done"
    /\ UNCHANGED <<runIn, runError, runQueue, runDispatched, runSessions, runTaskErrors,
                   runActive, runState, runToEmit, runLog, urlVars, storeVars>>
    /\ Frame("run")

NextRun ==
    \/ RunValidate
    \/ RunWindows
    \/ RunEnqueue
    \/ RunSetup
    \/ RunTask
    \/ RunTaskEnd
    \/ RunFinish
    \/ RunFinishHook
    \/ RunPersist
    \/ RunEmit
    \/ RunDone

SpecRun == InitRun /\ [][NextRun]_vars

SpecRunOrder == InitRunOrder /\ [][NextRun]_vars

(***************************************************************************)
(* Properties of the run                                                   *)
(***************************************************************************)
\* C28: a run that ended with a configuration error has dispatched no task
\* and opened no session; the crawler only runs for an input that is
\* present, has start URLs and a supported language; and no task raises an
\* error of the construction of a date window.
C28_FatalBeforeRun ==
    /\ runPc = "aborted" => runDispatched = 0 /\ runSessions = 0
    /\ runPc \in {"setup", "running", "finished", "persist", "emit", "done", "failed"} =>
          /\ runIn.present
          /\ runIn.startUrls # <<>>
          /\ runIn.language \in LANGUAGES
    /\ \A i \in 1..Len(runTaskErrors) : runTaskErrors[i] # "DateWindow"

(***************************************************************************)
(* extendFunction (functions.ts): the function it returns maps the raw     *)
(* data, splits the result into items, filters each item, runs the         *)
(* transform of the input on it and hands every result to output.          *)
(***************************************************************************)
\* items of a mapped sequence
MaxItems == 2

\* values: null, undefined, objects and arrays
JsNull == [t |-> "null", id |-> "", els |-> <<>>]
JsUndefined == [t |-> "undefined", id |-> "", els |-> <<>>]
Obj(id) == [t |-> "object", id |-> id, els |-> <<>>]
Arr(els) == [t |-> "array", id |-> "", els |-> els]

\* Array.isArray(v)
IsArray(v) == v.t = "array"

\* the items of the model: null, two objects, an empty array and an array
\* with an object and null
ItemValues == { JsNull, Obj("a"), Obj("b"), Arr(<<>>), Arr(<<Obj("b"), JsNull>>) }

RECURSIVE ItemLists(_)
ItemLists(n) ==
    IF n = 0 THEN {<<>>}
    ELSE {<<>>} \cup {<<v>> \o l : v \in ItemValues, l \in ItemLists(n - 1)}

\* what a raw datum or a result of map can be: a value that is no array, or
\* an array of items
MappedValues == (ItemValues \cup {JsUndefined} \cup { Arr(l) : l \in ItemLists(MaxItems) })

\* what the transform of the input returns for an item
TransformResults(item) == { item, JsNull, JsUndefined, Arr(<<Obj("a"), Obj("b")>>) }

\* the input key is no string or blank (the no-op script is used), the
\* source of a function ("script"), a source that does not compile
\* ("invalid", as `({ item }) =>`), or a source that compiles to something
\* that is no function ("value", as `42`)
ExtInputs ==
    [key : {"blank", "script", "invalid", "value"}, hasMap : BOOLEAN, hasFilter : BOOLEAN, hasOutput : BOOLEAN,
     data : MappedValues]

splitMap_AlwaysWrap(mapped) == <<mapped>>

\* splitMap, after map: if (!Array.isArray(mapped)) return [mapped]; return mapped
splitMap(mapped) == IF IsArray(mapped) THEN mapped.els ELSE <<mapped>>

\* Array.isArray(result) ? result : [result]
ResultList(result) == IF IsArray(result) THEN result.els ELSE <<result>>

Call(ev, idx, val, ok) == [ev |-> ev, idx |-> idx, val |-> val, ok |-> ok]

RECURSIVE OutputCalls(_, _, _)
\* for (const out of ...) { if (output) { if (out !== null) await output(out, merged) } }
OutputCalls(in, idx, outs) ==
    IF outs = <<>> THEN <<>>
    ELSE (IF in.hasOutput /\ Head(outs) # JsNull
          THEN <<Call("output", idx, Head(outs), TRUE)>> ELSE <<>>)
         \o OutputCalls(in, idx, Tail(outs))

\* the position of the loop at item i of items
LoopAt(i, items) == IF i <= Len(items) THEN "filter" ELSE "done"

ExtInit ==
    /\ extIn \in ExtInputs
    /\ (extIn.hasMap => extIn.data = Obj("a"))
    /\ extPc = "build"
    /\ extMapped = JsUndefined
    /\ extItems = <<>>
    /\ extIdx = 0
    /\ extResult = JsUndefined
    /\ extLog = <<>>

InitExt == InitStore /\ InitUrlIdle /\ IdleExcept("ext") /\ ExtInit

\* new vm.Script(source): the source is compiled, not run; only a source
\* that does not compile makes the constructor throw
evaledFn(key) ==
    IF key = "invalid"
    THEN [kind |-> "throw", error |-> "Error: parameter must be a function"]
    ELSE [kind |-> "return", error |-> "none"]

\* extendFunction({ key, input, ... }) up to the function it returns
ExtBuild ==
    /\ extPc = "build"
    /\ IF evaledFn(extIn.key).kind = "throw"
       THEN /\ extPc' = "failed"
            /\ extLog' = <<Call(evaledFn(extIn.key).error, 0, JsUndefined, FALSE)>>
       ELSE /\ extPc' = "split"
            /\ extLog' = extLog
    /\ UNCHANGED <<extIn, extMapped, extItems, extIdx, extResult, urlVars, storeVars>>
    /\ Frame("ext")

\* await splitMap(data, merged): map, if there is one, returns any value
ExtSplit ==
    /\ extPc = "split"
    /\ \E mapped \in (IF extIn.hasMap THEN MappedValues ELSE {extIn.data}) :
         /\ extMapped' = mapped
         /\ extItems' = splitMap(mapped)
         /\ extPc' = LoopAt(1, splitMap(mapped))
    /\ extIdx' = 1
    /\ UNCHANGED <<extIn, extResult, extLog, urlVars, storeVars>>
    /\ Frame("ext")

ExtFilter_NoSkip ==
    /\ extPc = "filter"
    /\ IF extIn.hasFilter
       THEN \E ok \in BOOLEAN :
              extLog' = Append(extLog, Call("filter", extIdx, extItems[extIdx], ok))
       ELSE extLog' = extLog
    /\ extPc' = "transform"
    /\ UNCHANGED <<extIdx, extIn, extMapped, extItems, extResult, urlVars, storeVars>>
    /\ Frame("ext")

\* if (filter && !(await filter({ data, item }, merged))) continue
ExtFilter ==
    /\ extPc = "filter"
    /\ IF extIn.hasFilter
       THEN \E ok \in BOOLEAN :
              /\ extLog' = Append(extLog, Call("filter", extIdx, extItems[extIdx], ok))
              /\ IF ok
                 THEN extPc' = "transform" /\ extIdx' = extIdx
                 ELSE extPc' = LoopAt(extIdx + 1, extItems) /\ extIdx' = extIdx + 1
       ELSE /\ extLog' = extLog
            /\ extPc' = "transform"
            /\ extIdx' = extIdx
    /\ UNCHANGED <<extIn, extMapped, extItems, extResult, urlVars, storeVars>>
    /\ Frame("ext")

\* const result = await evaledFn.runInThisContext()({ ...merged, data, item })
\* (a script that runs to a value that is no function makes the call throw
\* a TypeError)
ExtTransform ==
    /\ extPc = "transform"
    /\ IF extIn.key = "value"
       THEN /\ extResult' = extResult
            /\ extLog' = Append(extLog, Call("TypeError: is not a function", extIdx,
                                             extItems[extIdx], FALSE))
            /\ extPc' = "threw"
       ELSE /\ \E result \in (IF extIn.key = "script"
                               THEN TransformResults(extItems[extIdx])
                               ELSE {extItems[extIdx]}) :
                 extResult' = result
            /\ extLog' = Append(extLog, Call("transform", extIdx, extItems[extIdx],
                                             extIn.key = "script"))
            /\ extPc' = "output"
    /\ UNCHANGED <<extIn, extMapped, extItems, extIdx, urlVars, storeVars>>
    /\ Frame("ext")

\* the loop over the results of the transform, and on to the next item
ExtOutput ==
    /\ extPc = "output"
    /\ extLog' = extLog \o OutputCalls(extIn, extIdx, ResultList(extResult))
    /\ extIdx' = extIdx + 1
    /\ extPc' = LoopAt(extIdx + 1, extItems)
    /\ UNCHANGED <<extIn, extMapped, extItems, extResult, urlVars, storeVars>>
    /\ Frame("ext")

NextExt ==
    \/ ExtBuild
    \/ ExtSplit
    \/ ExtFilter
    \/ ExtTransform
    \/ ExtOutput

SpecExt == InitExt /\ [][NextExt]_vars

(***************************************************************************)
(* Properties of extendFunction                                            *)
(***************************************************************************)
\* the call is over
ExtDone == extPc = "done"

\* the filter was not called for item i or returned true for it
Passed(i) ==
    \A k \in 1..Len(extLog) :
       extLog[k].ev = "filter" /\ extLog[k].idx = i => extLog[k].ok

\* the values that output was called with, in the order of the calls
RECURSIVE OutputValues(_)
OutputValues(log) ==
    IF log = <<>> THEN <<>>
    ELSE (IF Head(log).ev = "output" THEN <<Head(log).val>> ELSE <<>>)
         \o OutputValues(Tail(log))

\* the items as claimed: the elements of a sequence that map returned, the
\* one value that map returned, and the raw datum itself without map
ClaimedItems ==
    IF extIn.hasMap
    THEN (IF extMapped.t = "array" THEN extMapped.els ELSE <<extMapped>>)
    ELSE <<extIn.data>>

\* the items as split: of the result of map, or of the raw datum without map
SplitItems ==
    LET m == IF extIn.hasMap THEN extMapped ELSE extIn.data
    IN  IF m.t = "array" THEN m.els ELSE <<m>>

\* what is handed to output for an item without a transform: nothing for
\* null, the elements other than null of a sequence, else the item
Handed(item) ==
    IF item.t = "array" THEN SelectSeq(item.els, LAMBDA v : v.t # "null")
    ELSE IF item.t = "null" THEN <<>>
    ELSE <<item>>

\* the passed items of items from index i on, each as itself
RECURSIVE PassedItems(_, _)
PassedItems(items, i) ==
    IF i > Len(items) THEN <<>>
    ELSE (IF Passed(i) THEN <<items[i]>> ELSE <<>>) \o PassedItems(items, i + 1)

\* what is handed to output for the passed items of items from index i on
RECURSIVE PassedHanded(_, _)
PassedHanded(items, i) ==
    IF i > Len(items) THEN <<>>
    ELSE (IF Passed(i) THEN Handed(items[i]) ELSE <<>>) \o PassedHanded(items, i + 1)

\* C29 (as claimed): without a transform of the user, output is called once
\* for each item that passes the filter, with the item itself and in the
\* order of the items; the items are the elements of a sequence returned by
\* map, the one other value returned by map, or the raw datum without map.
C29_IdentityPassthrough ==
    ExtDone /\ extIn.key = "blank" /\ extIn.hasOutput
       => OutputValues(extLog) = PassedItems(ClaimedItems, 1)

\* C29 (amended): without a transform of the user, the items are the
\* elements of the result of map (of the raw datum without map) if that is
\* a sequence and else that one value; for each item that passes the filter,
\* in the order of the items, output is called once with the item if it is
\* neither null nor a sequence, not at all if it is null, and once with each
\* element other than null if it is a sequence.
C29_PassthroughFlattened ==
    ExtDone /\ extIn.key = "blank" /\ extIn.hasOutput
       => /\ extItems = SplitItems
          /\ OutputValues(extLog) = PassedHanded(SplitItems, 1)

\* map returned two objects, the filter rejected the first and passed the
\* second, and output was called once, with the second
C29_Witness ==
    /\ ExtDone /\ extIn.key = "blank" /\ extIn.hasOutput /\ extIn.hasMap /\ extIn.hasFilter
    /\ extMapped = Arr(<<Obj("a"), Obj("b")>>)
    /\ ~Passed(1) /\ Passed(2)
    /\ OutputValues(extLog) = <<Obj("b")>>

\* C30: the transform is called for an item only after the filter, if
\* there is one, was called for that item with the raw datum and returned
\* true; for an item that the filter rejected neither the transform nor
\* output is called; and the loop goes on: when the call is over the filter
\* was called for every item.
C30_FilterSkips ==
    /\ \A k \in 1..Len(extLog) :
          /\ extLog[k].ev \in {"transform", "output"} => Passed(extLog[k].idx)
          /\ extLog[k].ev = "transform" /\ extIn.hasFilter =>
                \E j \in 1..(k - 1) :
                   /\ extLog[j].ev = "filter" /\ extLog[j].idx = extLog[k].idx
                   /\ extLog[j].val = extLog[k].val
          /\ extLog[k].ev = "filter" => extLog[k].val = extItems[extLog[k].idx]
    /\ ExtDone /\ extIn.hasFilter =>
          \A i \in 1..Len(extItems) :
             \E k \in 1..Len(extLog) : extLog[k].ev = "filter" /\ extLog[k].idx = i

\* with a transform of the user: the filter rejected the first of two items
\* and passed the second, for which alone transform and output were called
C30_Witness ==
    /\ ExtDone /\ extIn.key = "script" /\ extIn.hasFilter /\ extIn.hasOutput
    /\ Len(extItems) = 2
    /\ ~Passed(1) /\ Passed(2)
    /\ \E k \in 1..Len(extLog) : extLog[k].ev = "transform" /\ extLog[k].idx = 2
    /\ \E k \in 1..Len(extLog) : extLog[k].ev = "output" /\ extLog[k].idx = 2
    /\ \A k \in 1..Len(extLog) : extLog[k].idx = 1 => extLog[k].ev = "filter"

\* the values of a sequence that are neither null nor undefined
Present(outs) == SelectSeq(outs, LAMBDA v : v.t \notin {"null", "undefined"})

\* one output call for each value of outs, for the item at index idx
RECURSIVE CallsFor(_, _)
CallsFor(idx, outs) ==
    IF outs = <<>> THEN <<>>
    ELSE <<Call("output", idx, Head(outs), TRUE)>> \o CallsFor(idx, Tail(outs))

\* C31: the step that hands the result of the transform to output calls
\* output once, in order, for each value of the result (taken as a sequence)
\* that is neither null nor undefined, and for no other value; without an
\* output function it calls nothing.
C31_OutputsPresentValues ==
    [][extPc = "output" =>
          extLog' = extLog \o (IF extIn.hasOutput
                               THEN CallsFor(extIdx, Present(ResultList(extResult)))
                               ELSE <<>>)]_vars

(***************************************************************************)
(* Properties of the order of the run                                      *)
(***************************************************************************)
\* the positions of the log where ev was done for h
Times(ev, h) == { k \in 1..Len(runLog) : runLog[k] = Did(ev, h) }

\* something of kind ev was done before position k of the log
Before(ev, k) == \E j \in 1..(k - 1) : runLog[j].ev = ev

\* something of kind ev was done
Happened(ev) == Before(ev, Len(runLog) + 1)

\* the handle h is a key of the state
InState(h) == \E i \in 1..Len(runState) : runState[i] = h

\* C32: a task is delivered only after the SETUP hook; the FINISH hook runs
\* only when the queue is empty and no task is running, and no task is
\* delivered after it; persistState runs after the FINISH hook; a record is
\* handed to the output function, and pushed to the dataset, only after
\* persistState, when no task is running or queued; each hook and
\* persistState run at most once; and when the run is over every record of
\* the state was handed to the output function exactly once, nothing else
\* was, and without an extendOutputFunction of the user every record was
\* pushed exactly once.
C32_RunOrder ==
    /\ \A k \in 1..Len(runLog) :
          /\ runLog[k].ev = "task" => Before("SETUP", k) /\ ~Before("FINISH", k)
          /\ runLog[k].ev = "persist" => Before("FINISH", k)
          /\ runLog[k].ev \in {"emit", "push"} => Before("persist", k)
    /\ Happened("FINISH") => runQueue = <<>> /\ runActive = <<>>
    /\ \A ev \in {"SETUP", "FINISH", "persist"} : Cardinality(Times(ev, "none")) <= 1
    /\ \A h \in RunHandles :
          /\ Cardinality(Times("emit", h)) <= 1
          /\ Times("emit", h) # {} \/ Times("push", h) # {} => InState(h)
    /\ runPc = "done" =>
          \A h \in RunHandles :
             InState(h) =>
                /\ Cardinality(Times("emit", h)) = 1
                /\ runIn.extendOutput = "blank" => Cardinality(Times("push", h)) = 1

\* the run of a listing and a page of h1 is over: the listing found the
\* page of h2 while running, three tasks ran, and both records were handed
\* to the output function and pushed, h1 first
C32_Witness ==
    /\ runPc = "done"
    /\ runIn.extendOutput = "blank"
    /\ Len(runIn.startUrls) = 2
    /\ runIn.startUrls[1].kind = "listing" /\ runIn.startUrls[2].kind = "page"
    /\ runState = <<"h1", "h2">>
    /\ runDispatched = 3
    /\ Times("push", "h1") # {} /\ Times("push", "h2") # {}
    /\ \A i \in Times("emit", "h1"), j \in Times("emit", "h2") : i < j

(***************************************************************************)
(* The update callbacks of the main file on the record of one handle. The  *)
(* store runs the callbacks of a handle one after the other, each on the   *)
(* snapshot that the one before returned.                                  *)
(***************************************************************************)
\* update callbacks run on the record
MaxMerges == 3

\* the records the run can start with, fresh or restored from an earlier
\* run, with the fields that the callbacks below touch; ref stands for
\* pageUrl, #url and #ref, "absent" for a record without them
StoredRecords ==
    [services : {<<>>, <<"s0">>}, posts : {<<>>, <<"p0">>},
     reviews : {[average |-> 0, count |-> 0, reviews |-> <<>>],
                [average |-> 4, count |-> 1, reviews |-> <<"v0">>]},
     ref : {"absent", "r0"}]

HomeInitUpdate_ValueFirst(value, ref) == [value EXCEPT !.ref = ref]

\* { ...emptyState(), pageUrl, '#url': subpage.url, '#ref': request.url, ...value }
HomeInitUpdate(value, ref) == [value EXCEPT !.ref = IF @ = "absent" THEN ref ELSE @]

\* { ...value, reviews: { ...(value?.reviews ?? {}), average, count,
\*   reviews: [...reviews, ...(value?.reviews?.reviews ?? [])] } }
ReviewsUpdate(value, data) ==
    [value EXCEPT !.reviews = [average |-> data.average, count |-> data.count,
                               reviews |-> data.reviews \o @.reviews]]

\* what getReviews returns when it returns something
ReviewsData ==
    [average : {5}, count : {0, 2}, reviews : {<<>>, <<"v1">>, <<"v1", "v2">>}]

MergeInit ==
    /\ mgSnap \in StoredRecords
    /\ mgPrev = mgSnap
    /\ mgOp = "none"
    /\ mgSteps = 0

InitMerge == InitStore /\ InitUrlIdle /\ IdleExcept("merge") /\ MergeInit

\* the steps that all callbacks share
Merged(op, snap) ==
    /\ mgSteps < MaxMerges
    /\ mgPrev' = mgSnap
    /\ mgSnap' = snap
    /\ mgOp' = op
    /\ mgSteps' = mgSteps + 1

\* initSubPage of a home page
MergeHomeInit ==
    /\ \E ref \in {"r1", "r2"} : Merged("home", HomeInitUpdate(mgSnap, ref))
    /\ UNCHANGED <<urlVars, storeVars>>
    /\ Frame("merge")

\* case 'services', with at least one service
MergeServices ==
    /\ \E services \in {<<"s1">>, <<"s1", "s2">>} :
         Merged("services", ServicesUpdate(mgSnap, services))
    /\ UNCHANGED <<urlVars, storeVars>>
    /\ Frame("merge")

\* case 'reviews', with reviews data
MergeReviews ==
    /\ \E data \in ReviewsData : Merged("reviews", ReviewsUpdate(mgSnap, data))
    /\ UNCHANGED <<urlVars, storeVars>>
    /\ Frame("merge")

\* label POST, for a post that map.read did not find
MergeNewPost ==
    /\ \E post \in {"p1", "p2"} : Merged("newpost", NewPostUpdate(mgSnap, post))
    /\ UNCHANGED <<urlVars, storeVars>>
    /\ Frame("merge")

NextMerge ==
    \/ MergeHomeInit
    \/ MergeServices
    \/ MergeReviews
    \/ MergeNewPost

SpecMerge == InitMerge /\ [][NextMerge]_vars

(***************************************************************************)
(* Properties of the update callbacks                                      *)
(***************************************************************************)
\* the list new ends with the list old
EndsWith(new, old) ==
    /\ Len(new) >= Len(old)
    /\ SubSeq(new, Len(new) - Len(old) + 1, Len(new)) = old

\* the list new begins with the list old
BeginsWith(new, old) ==
    /\ Len(new) >= Len(old)
    /\ SubSeq(new, 1, Len(old)) = old

\* C33: the snapshot that a callback of home initialisation, services,
\* reviews or a new post returned holds every post, review and service of
\* the snapshot it received, in their order, so none of the three lists
\* gets shorter; and home initialisation changes the record only where the
\* address fields were absent.
C33_AdditiveMerge ==
    /\ EndsWith(mgSnap.posts, mgPrev.posts)
    /\ EndsWith(mgSnap.reviews.reviews, mgPrev.reviews.reviews)
    /\ BeginsWith(mgSnap.services, mgPrev.services)
    /\ mgOp = "home" =>
          /\ mgSnap.posts = mgPrev.posts
          /\ mgSnap.reviews = mgPrev.reviews
          /\ mgSnap.services = mgPrev.services
          /\ mgPrev.ref # "absent" => mgSnap.ref = mgPrev.ref

\* a record restored with a post, a review, a service and its address
\* fields got a post, then reviews, and then was initialised as a home page
\* again: it has kept all it had
C33_Witness ==
    /\ mgOp = "home" /\ mgSteps = 3
    /\ mgPrev.ref = "r0"
    /\ Len(mgSnap.posts) = 2
    /\ Len(mgSnap.reviews.reviews) >= 2
    /\ mgSnap.services = <<"s0">>

(***************************************************************************)
(* Properties of the posts of a record                                     *)
(***************************************************************************)
\* C36: the posts stored for a handle never hold two post records with the
\* same postUrl, however the post tasks interleave.
C36_UniquePosts ==
    \A h \in Handles :
       map[h] # NoSnap =>
          \A i, j \in 1..Len(map[h].posts) :
             heap[map[h].posts[i]].postUrl = heap[map[h].posts[j]].postUrl => i = j

(***************************************************************************)
(* Post tasks that fail                                                    *)
(***************************************************************************)
PostFail_DropsPost(t) ==
    /\ pc[t] = "comments"
    /\ pc' = [pc EXCEPT ![t] = "failed"]
    /\ map' = [map EXCEPT ![task[t].handle] =
                  [@ EXCEPT !.posts = SelectSeq(@, LAMBDA r : r # postRef[t])]]
    /\ UNCHANGED <<queue, heap, task, fn, res, postRef, added, urlVars>>
    /\ Frame("store")

\* getPostComments or the check of minPostComments throws: the task ends in
\* the catch of handlePageFunction, which leaves the store alone
PostFail(t) ==
    /\ pc[t] = "comments"
    /\ pc' = [pc EXCEPT ![t] = "failed"]
    /\ map' = map
    /\ UNCHANGED <<queue, heap, task, fn, res, postRef, added, urlVars>>
    /\ Frame("store")

\* label POST for a post of the handle owner
OwnerPostRead(t) == PostRead(t) /\ task'[t].handle = "owner"

NextPosts ==
    \E t \in Tasks :
        \/ OwnerPostRead(t)
        \/ PostCreate(t)
        \/ PostAddComment(t)
        \/ PostSetCount(t)
        \/ PostFail(t)
        \/ StoreRun(t)
        \/ StoreFinish(t)

SpecPosts == Init /\ [][NextPosts]_vars

\* the comments that task t has handed to add() and that were pushed
Collected(t) == { <<t, i>> : i \in 1..added[t] }

\* the comment c is in the thread of a post that the record of h holds
InStoredThread(h, c) ==
    /\ map[h] # NoSnap
    /\ \E i \in 1..Len(map[h].posts) :
          \E k \in 1..Len(heap[map[h].posts[i]].comments) :
             heap[map[h].posts[i]].comments[k] = c

\* C34: every comment that a post task collected before it failed is in the
\* comment thread of a post of the record stored for its handle, which is the
\* record that is emitted at the end of the run.
C34_CommentsSurviveFailure ==
    \A t \in Tasks :
       pc[t] = "failed" => \A c \in Collected(t) : InStoredThread(task[t].handle, c)

\* a task collected a comment for a new post and failed; a second task of
\* the same post found the post, collected a comment and failed too; the
\* post holds both comments
C34_Witness ==
    /\ \A t \in Tasks : pc[t] = "failed" /\ added[t] = 1
    /\ postRef[1] = postRef[2]
    /\ Len(heap) = 1
    /\ Len(heap[1].comments) = MaxTasks

(***************************************************************************)
(* Properties of the handle of the sub-tasks (checked under SpecUrl)       *)
(***************************************************************************)
\* C35: for a URL that is classified as a page, extractUsernameFromUrl
\* returns one and the same handle for the URL of every sub-task that
\* generateSubpagesFromUrl produces.
C35_OneHandlePerEntity ==
    Returned("generateSubpagesFromUrl") /\ getUrlLabel(urlIn) = Ret(LABELS.PAGE)
       => \A i, j \in 1..Len(urlOut.val) :
             /\ extractUsernameFromUrl(urlOut.val[i].url).kind = "return"
             /\ extractUsernameFromUrl(urlOut.val[i].url)
                   = extractUsernameFromUrl(urlOut.val[j].url)

(***************************************************************************)
(* Resolution of an intercepted request (checked under SpecCache)          *)
(***************************************************************************)
\* C37: a run of the request hook makes at most one route call (abort,
\* fulfill or continue) for its request; it makes none on a closed page and
\* exactly one on an open page, and when that call does not fail the
\* request is resolved by it.
C37_OneResolution ==
    cacheReq.call # "idle"
       => /\ Len(cacheReq.calls) <= 1
          /\ \A i \in 1..Len(cacheReq.calls) :
                cacheReq.calls[i] \in {"abort", "fulfill", "continue"}
          /\ cacheReq.closed => cacheReq.calls = <<>>
          /\ ~cacheReq.closed
                => /\ Len(cacheReq.calls) = 1
                   /\ cacheReq.calls = <<cacheReq.call>>
          /\ cacheReq.calls = <<>> => cacheReq.call = "none"

\* a blocklisted URL that also passes the image tests was aborted on an
\* open page, and the call resolved
C37_Witness ==
    /\ cacheReq.call = "abort"
    /\ cacheReq.calls = <<"abort">>
    /\ cacheReq.url = <<"static_map.php", "?", ".png">>
    /\ cacheReq.type = "image"
    /\ ~cacheReq.closed
    /\ cacheReq.resolved
    /\ cacheReqs = MaxRequests

(***************************************************************************)
(* Counters of the sample (checked under SpecSample)                       *)
(***************************************************************************)
\* the counters of a sample, as a sequence
Counters(c) ==
    <<c.total, c.inRange, c.outOfRange, c.empty, c.calls,
      c.max.older, c.max.newer, c.min.older, c.min.newer>>

\* C38: over every call of add, empty and time no counter is negative and
\* none decreases; inRange + outOfRange grows by one with every time() call
\* and with no other call; time() returns compare(value); and for a window
\* with both bounds set max.older + max.newer = outOfRange =
\* min.older + min.newer.
C38_CounterInvariants ==
    [][/\ \A i \in 1..Len(Counters(sample)) :
             /\ Counters(sample')[i] >= 0
             /\ Counters(sample')[i] >= Counters(sample)[i]
       /\ sample'.inRange + sample'.outOfRange
             = sample.inRange + sample.outOfRange
                  + (IF sampleLast'.op = "time" THEN 1 ELSE 0)
       /\ sampleLast'.op = "time"
             => sampleLast'.ret = compare(sampleWin, sampleLast'.arg)
       /\ willCheckRange(sampleWin)
             => /\ sample'.max.older + sample'.max.newer = sample'.outOfRange
                /\ sample'.min.older + sample'.min.newer = sample'.outOfRange]_vars

(***************************************************************************)
(* Building a pipeline (checked under SpecExt)                             *)
(***************************************************************************)
\* C39: when the transform source is a non-empty string that is no function,
\* extendFunction throws "parameter must be a function" while the pipeline
\* is built, before any item was processed, and the pipeline never fails
\* later on an item.
C39_BuildRejectsNonFunctions ==
    extIn.key \in {"invalid", "value"} /\ extPc # "build"
       => /\ extPc = "failed"
          /\ extLog = <<Call("Error: parameter must be a function", 0, JsUndefined, FALSE)>>

====
